---- MODULE Spec2Model ----
(***************************************************************************)
(* Batch job-matching engine of the LinkedIn AI Copilot backend            *)
(* (backend/app/services.py): the heuristic scorer, the LLM scorer with    *)
(* its response validation, and the batch orchestrator that fans out one   *)
(* task per job and gathers the outcomes.                                  *)
(*                                                                         *)
(* Python values are tagged records [type, val]; a dict is a function      *)
(* whose DOMAIN is the set of keys present; a str is a TLA+ string, so     *)
(* that lower(), the `in` substring test and slicing are computed          *)
(* character by character.                                                 *)
(***************************************************************************)
EXTENDS Integers, Sequences, FiniteSets, TLC

\* ---------------------------------------------------------------- bounds
\* Longest job list a batch request carries in the model.
MaxJobs == 2

\* ------------------------------------------------------- Python values
Str(s) == [type |-> "str", val |-> s]
PyInt(n) == [type |-> "int", val |-> n]
PyList(q) == [type |-> "list", val |-> q]
None == [type |-> "NoneType"]

EmptyDict == [k \in {} |-> None]

\* dict.get(k, default)
Get(d, k, default) == IF k \in DOMAIN d THEN d[k] ELSE default

\* d[k] = v
Put(d, k, v) == [x \in (DOMAIN d) \cup {k} |-> IF x = k THEN v ELSE d[x]]

Min(a, b) == IF a < b THEN a ELSE b
Max(a, b) == IF a > b THEN a ELSE b

\* seq[:n]
Take(q, n) == SubSeq(q, 1, Min(n, Len(q)))

TopN == 5

\* Mutation of TopFive: the cut is forgotten.
TopFiveNoCut(q) == q

\* seq[:5], the "top 5" cut of the skill lists
TopFive(q) == Take(q, TopN)

\* Outcome of a call: a returned value or a raised exception.
Ok(v) == [ok |-> TRUE, value |-> v]
Raise(kind, msg) == [ok |-> FALSE, exc |-> [kind |-> kind, msg |-> msg]]

\* ------------------------------------------------------------- strings
UpperLetters == "ABCDEFGHIJKLMNOPQRSTUVWXYZ"
LowerLetters == "abcdefghijklmnopqrstuvwxyz"

LowerChar(c) ==
    IF \E i \in 1..Len(UpperLetters) : SubSeq(UpperLetters, i, i) = c
    THEN LET i == CHOOSE j \in 1..Len(UpperLetters) : SubSeq(UpperLetters, j, j) = c
         IN  SubSeq(LowerLetters, i, i)
    ELSE c

\* str.lower(): every character lowered, computed half by half so that a
\* description of several hundred characters is within reach.
RECURSIVE Lower(_)
Lower(s) ==
    IF Len(s) <= 1 THEN LowerChar(s)
    ELSE LET half == Len(s) \div 2
         IN  Lower(SubSeq(s, 1, half)) \o Lower(SubSeq(s, half + 1, Len(s)))

\* t in s
Contains(s, t) ==
    \E i \in 1..(Len(s) - Len(t) + 1) : SubSeq(s, i, i + Len(t) - 1) = t

IsSpace(c) == c \in {" ", "\n", "\t", "\r"}

\* str.strip()
RECURSIVE LStrip(_)
LStrip(s) ==
    IF s # "" /\ IsSpace(SubSeq(s, 1, 1)) THEN LStrip(SubSeq(s, 2, Len(s))) ELSE s

RECURSIVE RStrip(_)
RStrip(s) ==
    IF s # "" /\ IsSpace(SubSeq(s, Len(s), Len(s)))
    THEN RStrip(SubSeq(s, 1, Len(s) - 1)) ELSE s

Strip(s) == RStrip(LStrip(s))

\* ', '.join(q)
RECURSIVE Join(_)
Join(q) ==
    IF q = <<>> THEN ""
    ELSE IF Len(q) = 1 THEN q[1]
    ELSE q[1] \o ", " \o Join(Tail(q))

\* AttributeError raised by v.lower() / v.strip() / v.get() on a value
\* of the wrong type.
NoAttribute(v, attr) ==
    Raise("AttributeError",
          "'" \o v.type \o "' object has no attribute '" \o attr \o "'")

\* ---------------------------------------------------- heuristic scorer
\* years_keywords of _score_job_heuristic
years_keywords == <<"senior", "lead", "staff", "principal", "junior", "entry">>

SkillCap == 50
RoleInTitle == 30
RoleInDescription == 15
DescriptionWindow == 500
ExpCap == 20
HighThreshold == 70
MediumThreshold == 50

\* for skill in user_skills: if skill in description or skill in job_title
MatchedSkills(user_skills, description, job_title) ==
    SelectSeq(user_skills,
              LAMBDA s : Contains(description, s) \/ Contains(job_title, s))

\* Mutation of SkillScore: the full 50 points as soon as any skill matches.
SkillScoreFlat(user_skills, description, job_title) ==
    IF MatchedSkills(user_skills, description, job_title) # <<>> THEN SkillCap ELSE 0

\* Mutation of SkillScore: only the skills found in the description count.
SkillScoreDescriptionOnly(user_skills, description, job_title) ==
    Min(10 * Len(SelectSeq(user_skills, LAMBDA s : Contains(description, s))), SkillCap)

\* skill_score = min(10 * matches, 50)
SkillScore(user_skills, description, job_title) ==
    Min(10 * Len(MatchedSkills(user_skills, description, job_title)), SkillCap)

\* Mutation of RoleScore: the whole description is searched, not its first
\* 500 characters.
RoleScoreNoWindow(target_role, job_title, description) ==
    IF target_role # "" /\ Contains(job_title, target_role) THEN RoleInTitle
    ELSE IF target_role # "" /\ Contains(description, target_role)
         THEN RoleInDescription
    ELSE 0

\* role_score: 30 when the target role is in the title, else 15 when it is
\* in description[:500]; an empty target role scores nothing.
RoleScore(target_role, job_title, description) ==
    IF target_role # "" /\ Contains(job_title, target_role) THEN RoleInTitle
    ELSE IF target_role # ""
            /\ Contains(Take(description, DescriptionWindow), target_role)
         THEN RoleInDescription
    ELSE 0

\* points of one seniority keyword
KeywordScore(keyword, job_title, experience) ==
    LET in_title == Contains(job_title, keyword)
        in_experience == Contains(experience, keyword)
    IN  IF in_title /\ in_experience THEN 10
        ELSE IF in_title \/ in_experience THEN 5
        ELSE 0

RECURSIVE SumKeywords(_, _, _)
SumKeywords(n, job_title, experience) ==
    IF n = 0 THEN 0
    ELSE SumKeywords(n - 1, job_title, experience)
         + KeywordScore(years_keywords[n], job_title, experience)

\* Mutation of ExpScore: the sum is not capped.
ExpScoreUncapped(job_title, experience) ==
    SumKeywords(Len(years_keywords), job_title, experience)

\* exp_score = min(sum over the keywords, 20)
ExpScore(job_title, experience) ==
    Min(SumKeywords(Len(years_keywords), job_title, experience), ExpCap)

\* Mutation of MissingSkills: a skill is missing when the description does
\* not have it, whatever the title says.
MissingSkillsDescriptionOnly(user_skills, description, job_title) ==
    SelectSeq(user_skills, LAMBDA s : ~Contains(description, s))

\* missing_skills = [s for s in user_skills if s not in description and
\*                   s not in job_title]
MissingSkills(user_skills, description, job_title) ==
    SelectSeq(user_skills,
              LAMBDA s : ~Contains(description, s) /\ ~Contains(job_title, s))

\* Mutation of Ranking: strict comparisons at the two thresholds.
RankingStrict(total_score) ==
    IF total_score > HighThreshold THEN "high"
    ELSE IF total_score > MediumThreshold THEN "medium"
    ELSE "low"

\* Ranking logic
Ranking(total_score) ==
    IF total_score >= HighThreshold THEN "high"
    ELSE IF total_score >= MediumThreshold THEN "medium"
    ELSE "low"

\* total_score = skill_score + role_score + exp_score
TotalScore(user_skills, target_role, experience, job_title, description) ==
    SkillScore(user_skills, description, job_title)
    + RoleScore(target_role, job_title, description)
    + ExpScore(job_title, experience)

\* The dict returned by _score_job_heuristic, from the lowered inputs.
HeuristicResult(job_id, job_title, description, user_skills, target_role, experience) ==
    LET matched_skills == MatchedSkills(user_skills, description, job_title)
        missing_skills == MissingSkills(user_skills, description, job_title)
        total_score == TotalScore(user_skills, target_role, experience,
                                  job_title, description)
        ranking == Ranking(total_score)
    IN  [job_id |-> job_id,
         match_score |-> PyInt(total_score),
         ranking_level |-> Str(ranking),
         matched_skills |-> PyList(TopFive(matched_skills)),
         missing_skills |-> PyList(TopFive(missing_skills)),
         summary |-> Str(ToString(total_score) \o "% match - "
                         \o ToString(Len(matched_skills))
                         \o " skills match, " \o ranking \o " fit")]

\* _score_job_heuristic(job, user_profile): the result dict, or the
\* exception raised by .lower() on a null field or by iterating null skills.
_score_job_heuristic(job, user_profile) ==
    LET job_id == Get(job, "job_id", Str("unknown"))
        title == Get(job, "job_title", Str(""))
        descr == Get(job, "description", Str(""))
        skills == Get(user_profile, "skills", PyList(<<>>))
        role == Get(user_profile, "target_role", Str(""))
        exper == Get(user_profile, "experience", Str(""))
    IN  IF title.type # "str" THEN NoAttribute(title, "lower")
        ELSE IF descr.type # "str" THEN NoAttribute(descr, "lower")
        ELSE IF skills.type # "list"
             THEN Raise("TypeError", "'" \o skills.type \o "' object is not iterable")
        ELSE IF role.type # "str" THEN NoAttribute(role, "lower")
        ELSE IF exper.type # "str" THEN NoAttribute(exper, "lower")
        ELSE Ok(HeuristicResult(job_id,
                                Lower(title.val),
                                Lower(descr.val),
                                [i \in 1..Len(skills.val) |-> Lower(skills.val[i])],
                                Lower(role.val),
                                Lower(exper.val)))

\* -------------------------------------------------- completion provider
\* Texts the completion provider answers with.
RawGood ==
    "{\"match_percentage\": 85, \"ranking_level\": \"high\", \"matched_skills\": [\"python\"], \"missing_skills\": [\"go\"], \"summary\": \"Strong match\", \"job_id\": \"999\"}"
RawOver ==
    "{\"match_percentage\": 150, \"ranking_level\": \"excellent\", \"matched_skills\": [\"a\", \"b\", \"c\", \"d\", \"e\", \"f\"], \"missing_skills\": [\"u\", \"v\", \"w\", \"x\", \"y\", \"z\"], \"summary\": \"Perfect\", \"error\": \"description truncated\"}"
RawUnder ==
    "{\"match_percentage\": -5, \"ranking_level\": \"low\", \"matched_skills\": \"python, sql\", \"missing_skills\": [], \"summary\": \"Weak\"} "
RawStrPct ==
    "{\"match_percentage\": \"85\", \"ranking_level\": \"high\", \"matched_skills\": [], \"missing_skills\": [], \"summary\": \"Quoted\"}"
RawNoRanking ==
    "{\"match_percentage\": 70, \"matched_skills\": [], \"missing_skills\": [], \"summary\": \"No level\"}"
RawList == "[85, \"high\"]"
RawInvalid == "Sure! Here is the score: 85"

\* The five keys the scorer requires, in sorted order.
RequiredKeys ==
    <<"match_percentage", "matched_skills", "missing_skills", "ranking_level", "summary">>

RequiredKeySet == {RequiredKeys[i] : i \in 1..Len(RequiredKeys)}

\* The member "key": value a provider writes for a required key.
MemberText(k) ==
    CASE k = "match_percentage" -> "\"match_percentage\": 70"
      [] k = "matched_skills" -> "\"matched_skills\": []"
      [] k = "missing_skills" -> "\"missing_skills\": []"
      [] k = "ranking_level" -> "\"ranking_level\": \"medium\""
      [] k = "summary" -> "\"summary\": \"No level\""

MemberValue(k) ==
    CASE k = "match_percentage" -> PyInt(70)
      [] k = "matched_skills" -> PyList(<<>>)
      [] k = "missing_skills" -> PyList(<<>>)
      [] k = "ranking_level" -> Str("medium")
      [] k = "summary" -> Str("No level")

\* The JSON object a provider writes when it gives only the keys in ks.
ObjectText(ks) ==
    LET present == SelectSeq(RequiredKeys, LAMBDA k : k \in ks)
    IN  "{" \o Join([i \in 1..Len(present) |-> MemberText(present[i])]) \o "}"

RawEmpty == ""
RawLong ==
    "I compared the job with the profile and I think the candidate is a strong match for this role, about 85 percent."

\* json.loads on the texts above: the parsed value, or JSONDecodeError.
JsonLoads(raw) ==
    CASE raw = RawGood ->
           Ok([type |-> "dict",
               val |-> [match_percentage |-> PyInt(85),
                        ranking_level |-> Str("high"),
                        matched_skills |-> PyList(<<"python">>),
                        missing_skills |-> PyList(<<"go">>),
                        summary |-> Str("Strong match"),
                        job_id |-> Str("999")]])
      [] raw = RawOver ->
           Ok([type |-> "dict",
               val |-> [match_percentage |-> PyInt(150),
                        ranking_level |-> Str("excellent"),
                        matched_skills |-> PyList(<<"a", "b", "c", "d", "e", "f">>),
                        missing_skills |-> PyList(<<"u", "v", "w", "x", "y", "z">>),
                        summary |-> Str("Perfect"),
                        error |-> Str("description truncated")]])
      [] raw = Strip(RawUnder) ->
           Ok([type |-> "dict",
               val |-> [match_percentage |-> PyInt(-5),
                        ranking_level |-> Str("low"),
                        matched_skills |-> Str("python, sql"),
                        missing_skills |-> PyList(<<>>),
                        summary |-> Str("Weak")]])
      [] raw = RawStrPct ->
           Ok([type |-> "dict",
               val |-> [match_percentage |-> Str("85"),
                        ranking_level |-> Str("high"),
                        matched_skills |-> PyList(<<>>),
                        missing_skills |-> PyList(<<>>),
                        summary |-> Str("Quoted")]])
      [] raw = RawNoRanking ->
           Ok([type |-> "dict",
               val |-> [match_percentage |-> PyInt(70),
                        matched_skills |-> PyList(<<>>),
                        missing_skills |-> PyList(<<>>),
                        summary |-> Str("No level")]])
      [] raw = RawList ->
           Ok(PyList(<<PyInt(85), Str("high")>>))
      [] raw # "" /\ SubSeq(raw, 1, 1) = "{"
            /\ \E ks \in SUBSET RequiredKeySet : raw = ObjectText(ks) ->
           LET ks == CHOOSE ks \in SUBSET RequiredKeySet : raw = ObjectText(ks)
           IN  Ok([type |-> "dict", val |-> [k \in ks |-> MemberValue(k)]])
      [] OTHER -> Raise("JSONDecodeError", "Expecting value: line 1 column 1 (char 0)")

\* What client.chat.completions.create does for one call: it raises a
\* transport error, or returns a message whose content is a text.
Transport(kind, msg) == [kind |-> "raise", exc |-> [kind |-> kind, msg |-> msg]]
Content(raw) == [kind |-> "content", content |-> Str(raw)]

ProviderResponses ==
    {Transport("APITimeoutError", "Request timed out."),
     Content(RawGood), Content(RawOver), Content(RawUnder), Content(RawStrPct),
     Content(RawNoRanking), Content(RawList), Content(RawInvalid)}

\* The failures of the transport the spec names: a timeout, a rejected API
\* key, a rate limit. The client raises them out of the awaited call.
TransportFailures ==
    {Transport("APITimeoutError", "Request timed out."),
     Transport("AuthenticationError", "Error code: 401 - Invalid API Key"),
     Transport("RateLimitError", "Error code: 429 - Rate limit reached")}

\* ----------------------------------------------------------- _call_llm
SanitizeMax == 100

\* _sanitize_raw(raw, max_length=100)
_sanitize_raw(raw) ==
    IF raw = "" THEN "Empty response"
    ELSE IF Len(raw) <= SanitizeMax THEN raw
    ELSE Take(raw, SanitizeMax) \o "... [truncated/redacted]"

\* expected_keys of _score_job_llm, in sorted() order
expected_keys ==
    <<"match_percentage", "matched_skills", "missing_skills", "ranking_level", "summary">>

\* Mutation of MissingKeys: only the first missing key is reported.
MissingKeysFirstOnly(data) ==
    Take(SelectSeq(expected_keys, LAMBDA k : k \notin DOMAIN data), 1)

\* sorted(expected_keys - set(data.keys()))
MissingKeys(data) == SelectSeq(expected_keys, LAMBDA k : k \notin DOMAIN data)

\* Mutation of _call_llm: a failure of the provider call is caught and
\* reported as an invalid response.
CallLlmWrapsTransport(response) ==
    IF response.kind = "raise"
    THEN Raise("ValueError",
               "AI returned an invalid JSON response. Raw (truncated): "
               \o _sanitize_raw(""))
    ELSE IF response.content.type # "str" THEN NoAttribute(response.content, "strip")
    ELSE
      LET raw == Strip(response.content.val)
          parsed == JsonLoads(raw)
      IN  IF ~parsed.ok
          THEN Raise("ValueError",
                     "AI returned an invalid JSON response. Raw (truncated): "
                     \o _sanitize_raw(raw))
          ELSE IF parsed.value.type # "dict"
          THEN Raise("ValueError",
                     "Expected JSON object (dict), got " \o parsed.value.type
                     \o ". Raw (redacted): <redacted>")
          ELSE IF MissingKeys(parsed.value.val) # <<>>
          THEN Raise("ValueError",
                     "LLM response is missing required keys: "
                     \o Join(MissingKeys(parsed.value.val))
                     \o ". Expected keys: " \o Join(expected_keys)
                     \o ". Raw (truncated): " \o _sanitize_raw(raw))
          ELSE Ok(parsed.value.val)

\* _call_llm(messages, expected_keys=expected_keys) given what the provider
\* call does: the parsed dict, or the exception that leaves _call_llm.
_call_llm(response) ==
    IF response.kind = "raise" THEN [ok |-> FALSE, exc |-> response.exc]
    ELSE IF response.content.type # "str" THEN NoAttribute(response.content, "strip")
    ELSE
      LET raw == Strip(response.content.val)
          parsed == JsonLoads(raw)
      IN  IF ~parsed.ok
          THEN Raise("ValueError",
                     "AI returned an invalid JSON response. Raw (truncated): "
                     \o _sanitize_raw(raw))
          ELSE IF parsed.value.type # "dict"
          THEN Raise("ValueError",
                     "Expected JSON object (dict), got " \o parsed.value.type
                     \o ". Raw (redacted): <redacted>")
          ELSE IF MissingKeys(parsed.value.val) # <<>>
          THEN Raise("ValueError",
                     "LLM response is missing required keys: "
                     \o Join(MissingKeys(parsed.value.val))
                     \o ". Expected keys: " \o Join(expected_keys)
                     \o ". Raw (truncated): " \o _sanitize_raw(raw))
          ELSE Ok(parsed.value.val)

\* ------------------------------------------------------- _score_job_llm
DefaultPercentage == 50

\* build_job_batch_scoring_prompt(job, user_profile): the system and user
\* messages asking for the five keys as strict JSON.
build_job_batch_scoring_prompt(job, user_profile) ==
    <<[role |-> "system", job |-> job, user_profile |-> user_profile],
      [role |-> "user", job |-> job, user_profile |-> user_profile]>>

\* Mutation of ClampPercentage: the provider's value is passed through.
ClampPercentageNoClamp(v) ==
    IF v.type = "int" THEN Ok(v)
    ELSE Raise("TypeError",
               "'>' not supported between instances of '" \o v.type \o "' and 'int'")

\* min(100, max(0, v)) on a Python value
ClampPercentage(v) ==
    IF v.type = "int" THEN Ok(PyInt(Min(100, Max(0, v.val))))
    ELSE Raise("TypeError",
               "'>' not supported between instances of '" \o v.type \o "' and 'int'")

\* v[:5] on a Python value
SliceTop(v) ==
    IF v.type = "list" THEN Ok(PyList(TopFive(v.val)))
    ELSE IF v.type = "str" THEN Ok(Str(TopFive(v.val)))
    ELSE Raise("TypeError", "'" \o v.type \o "' object is not subscriptable")

\* Mutation of StampJobId: a job_id the provider echoed is kept.
StampJobIdKeepEcho(data, job) ==
    IF "job_id" \in DOMAIN data THEN data
    ELSE Put(data, "job_id", Get(job, "job_id", None))

\* data["job_id"] = job.get("job_id")
StampJobId(data, job) == Put(data, "job_id", Get(job, "job_id", None))

\* The part of _score_job_llm after the provider call has completed.
_score_job_llm(job, user_profile, response) ==
    LET called == _call_llm(response)
    IN  IF ~called.ok THEN called
        ELSE
          LET data == called.value
              score == ClampPercentage(Get(data, "match_percentage", PyInt(DefaultPercentage)))
              matched == SliceTop(Get(data, "matched_skills", PyList(<<>>)))
              missing == SliceTop(Get(data, "missing_skills", PyList(<<>>)))
          IN  IF ~score.ok THEN score
              ELSE IF ~matched.ok THEN matched
              ELSE IF ~missing.ok THEN missing
              ELSE Ok(Put(Put(Put(StampJobId(data, job),
                                  "match_score", score.value),
                              "matched_skills", matched.value),
                          "missing_skills", missing.value))

\* ------------------------------------------------------ request inputs
\* Job mappings a batch request can carry (the endpoint takes the request
\* body as a plain dict, so a field can be absent or null).
JobExample ==
    [job_id |-> Str("1"),
     job_title |-> Str("Senior Backend Engineer"),
     company_name |-> Str("TechCorp"),
     description |-> Str("Python and FastAPI required")]
JobNoOverlap ==
    [job_id |-> Str("2"),
     job_title |-> Str("Chef")]
JobRich ==
    [job_id |-> Str("3"),
     job_title |-> Str("Senior Staff Data Engineer"),
     description |-> Str("SQL, Python, Spark, Kafka, AWS and dbt; FastAPI a plus. Works with backend engineers.")]
JobNullTitle ==
    [job_title |-> None,
     description |-> Str("Python")]

JobPool == {JobExample, JobNoOverlap, JobRich, JobNullTitle}

ProfileExample ==
    [skills |-> PyList(<<"Python", "FastAPI">>),
     target_role |-> Str("Backend Engineer"),
     experience |-> Str("senior backend")]
ProfileRich ==
    [skills |-> PyList(<<"SQL", "Python", "Spark", "Kafka", "AWS", "dbt", "FastAPI">>),
     target_role |-> Str("Engineer"),
     experience |-> Str("Senior staff engineer, team lead")]
ProfileEmpty ==
    [skills |-> PyList(<<>>)]
ProfileNullExperience ==
    [skills |-> PyList(<<"Python">>),
     target_role |-> Str(""),
     experience |-> None]

ProfilePool == {ProfileExample, ProfileRich, ProfileEmpty, ProfileNullExperience}

\* In LLM mode the profile only reaches the prompt, so the requests of the
\* model carry one of two profiles there.
LLMProfilePool == {ProfileExample, ProfileNullExperience}

JobLists == UNION {[1..n -> JobPool] : n \in 0..MaxJobs}

\* Callers that can have a save_user_profile call in progress at once.
MaxCallers == 2
Callers == 1..MaxCallers

\* No call in progress.
NoSave == [pc |-> "idle"]

\* ---------------------------------------------------------------- state
VARIABLES
    pc,            \* "idle" | "gathering" | "returned" | "raised"
    jobs,          \* the jobs argument of the call
    user_profile,  \* the user_profile argument of the call
    quick_mode,    \* the quick_mode argument of the call
    tasks,         \* LLM mode: one task per job, in input order
    out_of_order,  \* LLM mode: some task finished before a task of an earlier job
    ret,           \* the list match_jobs_batch_service returned
    raised,        \* the exception that left match_jobs_batch_service, or None
    http_status,   \* status of the HTTPException batch_score_jobs raised, or 0
    llm_call,      \* the last call of _score_job_llm run on its own
    heuristic_call, \* the last call of _score_job_heuristic run on its own
    tracked_jobs,  \* table tracked_jobs: id -> row
    db_clock,      \* datetime.utcnow() as a counter of the writes so far
    db_call,       \* the last completed call of a tracked-job function
    user_profile_rows, \* table user_profile: its rows in rowid order
    profile_seq,   \* sqlite_sequence of user_profile (AUTOINCREMENT)
    saves,         \* the save_user_profile calls in progress, per caller
    saves_started, \* number of save_user_profile calls made so far
    last_saved     \* the profile of the last completed save_user_profile

batchVars == <<pc, jobs, user_profile, quick_mode, tasks, out_of_order, ret, raised,
               http_status>>
scorerVars == <<llm_call, heuristic_call>>
jobStoreVars == <<tracked_jobs, db_clock, db_call>>
profileVars == <<user_profile_rows, profile_seq, saves, saves_started, last_saved>>
vars == <<batchVars, scorerVars, jobStoreVars, profileVars>>

Init ==
    /\ pc = "idle"
    /\ jobs = <<>>
    /\ user_profile = EmptyDict
    /\ quick_mode = FALSE
    /\ tasks = <<>>
    /\ out_of_order = FALSE
    /\ ret = <<>>
    /\ raised = None
    /\ http_status = 0
    /\ llm_call = None
    /\ heuristic_call = None
    /\ tracked_jobs = EmptyDict
    /\ db_clock = 0
    /\ db_call = None
    /\ user_profile_rows = <<>>
    /\ profile_seq = 0
    /\ saves = [c \in Callers |-> NoSave]
    /\ saves_started = 0
    /\ last_saved = None

\* ------------------------------------------------------- orchestrator
\* Mutation of QuickScores: a job whose scoring raises gets the failed-result
\* placeholder and the loop goes on.
QuickScoresDegrade(js, profile) ==
    [i \in 1..Len(js) |->
        LET score == _score_job_heuristic(js[i], profile)
        IN  IF score.ok THEN score
            ELSE Ok([job_id |-> Get(js[i], "job_id", None),
                     match_score |-> PyInt(0),
                     ranking_level |-> Str("none"),
                     matched_skills |-> PyList(<<>>),
                     missing_skills |-> PyList(<<>>),
                     summary |-> Str("Error during AI scoring"),
                     error |-> Str(score.exc.msg)])]

\* Quick mode: the sequential loop over _score_job_heuristic.
QuickScores(js, profile) == [i \in 1..Len(js) |-> _score_job_heuristic(js[i], profile)]

\* A task of the LLM fan-out: created by the list comprehension, awaiting
\* the provider once it has issued its call, done with its outcome; calls
\* counts the provider calls the task has issued.
NewTask == [state |-> "created", response |-> None, outcome |-> None, calls |-> 0]

\* Mutation of Gather: without return_exceptions the first exception leaves
\* the gather.
GatherRaisesFirst(ts) ==
    LET failed == {i \in 1..Len(ts) : ~ts[i].outcome.ok}
    IN  IF failed # {}
        THEN [ok |-> FALSE,
              exc |-> ts[CHOOSE i \in failed : \A j \in failed : i <= j].outcome.exc]
        ELSE Ok([i \in 1..Len(ts) |-> ts[i].outcome])

\* asyncio.gather(*tasks, return_exceptions=True): it returns one entry per
\* awaitable, in the order the awaitables were passed; the exception of a
\* failed task is its entry, so the gather itself does not raise.
Gather(ts) == Ok([i \in 1..Len(ts) |-> ts[i].outcome])

\* The failed-result placeholder of match_jobs_batch_service.
Placeholder(job, exc) ==
    [job_id |-> Get(job, "job_id", None),
     match_score |-> PyInt(0),
     ranking_level |-> Str("none"),
     matched_skills |-> PyList(<<>>),
     missing_skills |-> PyList(<<>>),
     summary |-> Str("Error during AI scoring"),
     error |-> Str(exc.msg)]

\* Mutation of ValidResults: the successful results first, the placeholders
\* of the failed jobs after them.
ValidResultsFailuresLast(js, results) ==
    LET idx == [i \in 1..Len(results) |-> i]
        good == SelectSeq(idx, LAMBDA i : results[i].ok)
        bad == SelectSeq(idx, LAMBDA i : ~results[i].ok)
    IN  [k \in 1..Len(good) |-> results[good[k]].value]
        \o [k \in 1..Len(bad) |-> Placeholder(js[bad[k]], results[bad[k]].exc)]

\* Mutation of ValidResults: one failed task degrades every entry.
ValidResultsAllOrNothing(js, results) ==
    LET failed == {i \in 1..Len(results) : ~results[i].ok}
    IN  [i \in 1..Len(results) |->
            IF failed # {}
            THEN Placeholder(js[i], results[CHOOSE f \in failed : \A g \in failed : f <= g].exc)
            ELSE results[i].value]

\* The loop that builds valid_results from the gathered results.
ValidResults(js, results) ==
    [i \in 1..Len(results) |->
        IF ~results[i].ok THEN Placeholder(js[i], results[i].exc)
        ELSE results[i].value]

\* Mutation of FanOut: the coroutines are created but the gather is not
\* awaited, the function returns at once.
FanOutNoAwait(js) ==
    /\ pc' = "returned"
    /\ tasks' = [i \in 1..Len(js) |-> NewTask]
    /\ UNCHANGED <<ret, raised>>

\* tasks = [_score_job_llm(job, user_profile) for job in jobs] followed by
\* await asyncio.gather(*tasks, return_exceptions=True): every coroutine
\* exists before the orchestrator suspends on the gather.
FanOut(js) ==
    /\ pc' = "gathering"
    /\ tasks' = [i \in 1..Len(js) |-> NewTask]
    /\ UNCHANGED <<ret, raised>>

\* match_jobs_batch_service(jobs, user_profile, quick_mode), up to its
\* return, its raise, or (LLM mode) the await of the gather.
match_jobs_batch_service(js, profile, quick) ==
    /\ pc = "idle"
    /\ jobs' = js
    /\ user_profile' = profile
    /\ quick_mode' = quick
    /\ out_of_order' = FALSE
    /\ IF js = <<>>
       THEN /\ pc' = "returned"
            /\ ret' = <<>>
            /\ UNCHANGED <<tasks, raised>>
       ELSE IF quick
       THEN LET scores == QuickScores(js, profile)
                failed == {i \in 1..Len(js) : ~scores[i].ok}
            IN  IF failed # {}
                THEN /\ pc' = "raised"
                     /\ raised' = scores[CHOOSE i \in failed : \A j \in failed : i <= j].exc
                     /\ UNCHANGED <<tasks, ret>>
                ELSE /\ pc' = "returned"
                     /\ ret' = [i \in 1..Len(js) |-> scores[i].value]
                     /\ UNCHANGED <<tasks, raised>>
       ELSE FanOut(js)
    /\ UNCHANGED <<http_status, scorerVars, jobStoreVars, profileVars>>

\* Request bodies of POST /jobs/batch-score-jobs: the handler takes the body
\* as a plain dict, so the jobs key can be absent.
BatchRequests ==
    {[jobs |-> js, user_profile |-> profile, quick_mode |-> TRUE] :
        js \in JobLists, profile \in ProfilePool}
    \cup {[jobs |-> js, user_profile |-> profile, quick_mode |-> FALSE] :
        js \in JobLists, profile \in LLMProfilePool}
    \cup {[user_profile |-> profile] : profile \in LLMProfilePool}

MaxBatchSize == 50

\* batch_score_jobs(request): the handler of POST /jobs/batch-score-jobs up
\* to its HTTPException or its call of match_jobs_batch_service. The
\* response of an accepted request follows the service's outcome.
batch_score_jobs(request) ==
    LET js == Get(request, "jobs", <<>>)
        profile == Get(request, "user_profile", EmptyDict)
        quick == Get(request, "quick_mode", FALSE)
    IN  IF js = <<>> \/ Len(js) > MaxBatchSize
        THEN /\ pc = "idle"
             /\ pc' = "rejected"
             /\ http_status' = 400
             /\ UNCHANGED <<jobs, user_profile, quick_mode, tasks, out_of_order, ret,
                            raised, scorerVars, jobStoreVars, profileVars>>
        ELSE match_jobs_batch_service(js, profile, quick)

\* Mutation of TaskStart: the call is issued a second time before the task
\* awaits the answer.
TaskStartCallsTwice(i) ==
    /\ pc = "gathering"
    /\ tasks[i].state = "created"
    /\ build_job_batch_scoring_prompt(jobs[i], user_profile) # <<>>
    /\ tasks' = [tasks EXCEPT ![i].state = "awaiting", ![i].calls = @ + 2]
    /\ UNCHANGED <<pc, jobs, user_profile, quick_mode, out_of_order, ret, raised>>
    /\ UNCHANGED <<http_status, scorerVars, jobStoreVars, profileVars>>

\* Task i runs _score_job_llm up to its suspension point: it builds the
\* prompt and issues the provider call.
TaskStart(i) ==
    /\ pc = "gathering"
    /\ tasks[i].state = "created"
    /\ build_job_batch_scoring_prompt(jobs[i], user_profile) # <<>>
    /\ tasks' = [tasks EXCEPT ![i].state = "awaiting", ![i].calls = @ + 1]
    /\ UNCHANGED <<pc, jobs, user_profile, quick_mode, out_of_order, ret, raised>>
    /\ UNCHANGED <<http_status, scorerVars, jobStoreVars, profileVars>>

\* The provider call of task i completes with response r and the task runs
\* the rest of _score_job_llm to its result or its exception.
TaskFinish(i, r) ==
    /\ pc = "gathering"
    /\ tasks[i].state = "awaiting"
    /\ tasks' = [tasks EXCEPT ![i] = [state |-> "done",
                                       response |-> r,
                                       outcome |-> _score_job_llm(jobs[i], user_profile, r),
                                       calls |-> tasks[i].calls]]
    /\ out_of_order' = (out_of_order \/ \E j \in 1..(i - 1) : tasks[j].state # "done")
    /\ UNCHANGED <<pc, jobs, user_profile, quick_mode, ret, raised>>
    /\ UNCHANGED <<http_status, scorerVars, jobStoreVars, profileVars>>

\* Mutation of GatherReturn: the gather gives up on the tasks that are not
\* done and the batch returns with a placeholder for each of them.
GatherReturnTimesOut ==
    /\ pc = "gathering"
    /\ LET expired == Raise("TimeoutError", "")
           results == [i \in 1..Len(tasks) |->
                          IF tasks[i].state = "done" THEN tasks[i].outcome ELSE expired]
       IN  /\ ret' = ValidResults(jobs, results)
           /\ pc' = "returned"
           /\ UNCHANGED raised
    /\ UNCHANGED <<jobs, user_profile, quick_mode, tasks, out_of_order>>
    /\ UNCHANGED <<http_status, scorerVars, jobStoreVars, profileVars>>

\* Every task is done: the gather returns and the placeholder loop builds
\* the list that is returned.
GatherReturn ==
    /\ pc = "gathering"
    /\ \A i \in 1..Len(tasks) : tasks[i].state = "done"
    /\ LET results == Gather(tasks)
       IN  IF results.ok
           THEN /\ ret' = ValidResults(jobs, results.value)
                /\ pc' = "returned"
                /\ UNCHANGED raised
           ELSE /\ raised' = results.exc
                /\ pc' = "raised"
                /\ UNCHANGED ret
    /\ UNCHANGED <<jobs, user_profile, quick_mode, tasks, out_of_order>>
    /\ UNCHANGED <<http_status, scorerVars, jobStoreVars, profileVars>>

Next ==
    \/ /\ pc = "idle"
       /\ \E js \in JobLists, quick \in BOOLEAN :
             \E profile \in (IF quick THEN ProfilePool ELSE LLMProfilePool) :
                match_jobs_batch_service(js, profile, quick)
    \/ /\ pc = "idle"
       /\ \E request \in BatchRequests : batch_score_jobs(request)
    \/ \E i \in 1..Len(tasks) : TaskStart(i)
    \/ \E i \in 1..Len(tasks), r \in ProviderResponses : TaskFinish(i, r)
    \/ GatherReturn

Spec == Init /\ [][Next]_vars

\* The batch under the assumption that every provider call returns or fails
\* in the end, on an event loop that runs every coroutine that is ready.
\* Whether the batch returns does not depend on what the jobs say, so the
\* calls carry one of two jobs and the provider answers in one of three
\* ways: a transport failure, a valid object, a text that is not JSON.
LiveJobLists == UNION {[1..n -> {JobExample, JobNullTitle}] : n \in 0..MaxJobs}

LiveResponses ==
    {Transport("APITimeoutError", "Request timed out."),
     Content(RawGood), Content(RawInvalid)}

LiveNext ==
    \/ /\ pc = "idle"
       /\ \E js \in LiveJobLists, quick \in BOOLEAN :
             match_jobs_batch_service(js, ProfileExample, quick)
    \/ \E i \in 1..Len(tasks) : TaskStart(i)
    \/ \E i \in 1..Len(tasks), r \in LiveResponses : TaskFinish(i, r)
    \/ GatherReturn

LiveSpec ==
    /\ Init
    /\ [][LiveNext]_vars
    /\ WF_vars(\E i \in 1..Len(tasks) : TaskStart(i))
    /\ WF_vars(\E i \in 1..Len(tasks), r \in LiveResponses : TaskFinish(i, r))
    /\ WF_vars(GatherReturn)

\* ================================================= the LLM scorer alone
\* What the provider can answer one call with: the responses of the batch
\* model, an object with any subset of the required keys, an empty text and
\* a long text that is not JSON, and each failure of the transport.
ScorerResponses ==
    ProviderResponses
    \cup TransportFailures
    \cup {Content(ObjectText(ks)) : ks \in SUBSET RequiredKeySet}
    \cup {Content(RawEmpty), Content(RawLong)}

\* One call of _score_job_llm(job, user_profile) whose provider call is
\* answered with response.
ScoreJobLlmCall(job, profile, response) ==
    /\ llm_call' = [job |-> job, user_profile |-> profile, response |-> response,
                    outcome |-> _score_job_llm(job, profile, response)]
    /\ UNCHANGED <<heuristic_call, batchVars, jobStoreVars, profileVars>>

ScorerNext ==
    \E job \in JobPool, profile \in LLMProfilePool, response \in ScorerResponses :
       ScoreJobLlmCall(job, profile, response)

ScorerSpec == Init /\ [][ScorerNext]_vars

\* ========================================== the heuristic scorer alone
\* Filler of a job description: 500 characters that hold no skill, no role
\* and no seniority keyword.
Pad500 ==
    LET pad50 == "lorem ipsum dolor sit amet consectetur adipiscing "
        pad100 == pad50 \o pad50
    IN  pad100 \o pad100 \o pad100 \o pad100 \o pad100

\* Descriptions that name the role "Backend Engineer" so that it ends on
\* character 500 and on character 501.
DescriptionRoleAtEnd == SubSeq(Pad500, 1, 484) \o "Backend Engineer"
DescriptionRoleStraddles == SubSeq(Pad500, 1, 485) \o "Backend Engineer"

\* Jobs the heuristic is called with: every title with every description,
\* and the jobs of the batch requests.
HeuristicJobs ==
    LET titles == {"Senior Backend Engineer", "Chef", "Senior Staff Lead Engineer",
                   "Junior SQL Analyst"}
        descriptions ==
            {"Python and FastAPI required",
             "SQL, Python, Spark, Kafka, AWS and dbt; FastAPI a plus. Works with backend engineers.",
             DescriptionRoleAtEnd, DescriptionRoleStraddles}
    IN  {[job_id |-> Str("h"), job_title |-> Str(t), description |-> Str(d)] :
            t \in titles, d \in descriptions}
        \cup JobPool

\* Profiles the heuristic is called with: every skill list with every target
\* role and every experience text, and the profiles of the batch requests.
HeuristicProfiles ==
    LET skill_lists ==
            {<<>>,
             <<"Python", "FastAPI">>,
             <<"SQL", "Python", "Spark", "Kafka", "AWS", "dbt", "FastAPI">>,
             <<"Go", "Rust", "Haskell", "Erlang", "OCaml", "Zig", "Python", "go">>}
        roles == {"", "Backend Engineer", "Engineer", "Data Scientist"}
        experiences ==
            {"senior backend", "Senior staff engineer, team lead",
             "Principal engineer, entry level"}
    IN  {[skills |-> PyList(sk), target_role |-> Str(r), experience |-> Str(e)] :
            sk \in skill_lists, r \in roles, e \in experiences}
        \cup ProfilePool

\* The locals of _score_job_heuristic when it reaches its return: the
\* lowered inputs, the three component scores and the two skill lists before
\* the [:5] cut.
HeuristicLocals(job, profile) ==
    LET job_title == Lower(Get(job, "job_title", Str("")).val)
        description == Lower(Get(job, "description", Str("")).val)
        skills == Get(profile, "skills", PyList(<<>>)).val
        user_skills == [i \in 1..Len(skills) |-> Lower(skills[i])]
        target_role == Lower(Get(profile, "target_role", Str("")).val)
        experience == Lower(Get(profile, "experience", Str("")).val)
    IN  [job_title |-> job_title,
         description |-> description,
         user_skills |-> user_skills,
         target_role |-> target_role,
         experience |-> experience,
         skill_score |-> SkillScore(user_skills, description, job_title),
         role_score |-> RoleScore(target_role, job_title, description),
         exp_score |-> ExpScore(job_title, experience),
         matched_skills |-> MatchedSkills(user_skills, description, job_title),
         missing_skills |-> MissingSkills(user_skills, description, job_title)]

\* One call of _score_job_heuristic(job, user_profile). The function keeps
\* no state between calls, so a behaviour makes one call.
ScoreJobHeuristicCall(job, profile) ==
    /\ heuristic_call = None
    /\ LET outcome == _score_job_heuristic(job, profile)
       IN  heuristic_call' = [job |-> job, user_profile |-> profile,
                              outcome |-> outcome,
                              locals |-> IF outcome.ok
                                         THEN HeuristicLocals(job, profile)
                                         ELSE None]
    /\ UNCHANGED <<llm_call, batchVars, jobStoreVars, profileVars>>

HeuristicNext ==
    \E job \in HeuristicJobs, profile \in HeuristicProfiles :
       ScoreJobHeuristicCall(job, profile)

HeuristicSpec == Init /\ [][HeuristicNext]_vars

\* ==================================================== tracked-job store
\* Bound on the number of successful writes (each write reads a later
\* datetime.utcnow()).
MaxWrites == 3

\* not v
Falsy(v) == v \in {None, Str(""), PyInt(0), PyList(<<>>)}

\* datetime.utcnow().isoformat() at instant n
Timestamp(n) == [type |-> "datetime", val |-> n]

\* ------------------------------------------------- json.dumps / json.loads
\* The escapes json.dumps applies to the characters of a str.
RECURSIVE JsonEscape(_)
JsonEscape(s) ==
    IF s = "" THEN ""
    ELSE LET c == SubSeq(s, 1, 1)
             rest == JsonEscape(SubSeq(s, 2, Len(s)))
         IN  IF c = "\"" THEN "\\\"" \o rest
             ELSE IF c = "\\" THEN "\\\\" \o rest
             ELSE c \o rest

JsonQuote(s) == "\"" \o JsonEscape(s) \o "\""

\* json.dumps(v) for None, a str and a list of str
json_dumps(v) ==
    IF v = None THEN "null"
    ELSE IF v.type = "str" THEN JsonQuote(v.val)
    ELSE "[" \o Join([i \in 1..Len(v.val) |-> JsonQuote(v.val[i])]) \o "]"

JSONDecodeError == Raise("JSONDecodeError", "Expecting value")

\* Scans a JSON string whose opening quote is before position i: the
\* decoded characters and the position after the closing quote.
RECURSIVE ScanString(_, _, _)
ScanString(text, i, acc) ==
    IF i > Len(text) THEN [ok |-> FALSE]
    ELSE LET c == SubSeq(text, i, i)
         IN  IF c = "\"" THEN [ok |-> TRUE, str |-> acc, next |-> i + 1]
             ELSE IF c = "\\"
             THEN IF i + 1 > Len(text) THEN [ok |-> FALSE]
                  ELSE LET e == SubSeq(text, i + 1, i + 1)
                       IN  IF e \in {"\"", "\\"}
                           THEN ScanString(text, i + 2, acc \o e)
                           ELSE [ok |-> FALSE]
             ELSE ScanString(text, i + 1, acc \o c)

\* Scans the items of a JSON array of strings from position i, after the
\* opening bracket or after a separator.
RECURSIVE ScanItems(_, _, _)
ScanItems(text, i, acc) ==
    IF i > Len(text) \/ SubSeq(text, i, i) # "\"" THEN JSONDecodeError
    ELSE LET item == ScanString(text, i + 1, "")
         IN  IF ~item.ok THEN JSONDecodeError
             ELSE IF SubSeq(text, item.next, Len(text)) = "]"
             THEN Ok(PyList(Append(acc, item.str)))
             ELSE IF SubSeq(text, item.next, item.next + 1) = ", "
             THEN ScanItems(text, item.next + 2, Append(acc, item.str))
             ELSE JSONDecodeError

\* json.loads(text) for the texts json.dumps writes: null, a string, an
\* array of strings.
json_loads(text) ==
    IF text = "null" THEN Ok(None)
    ELSE IF text = "[]" THEN Ok(PyList(<<>>))
    ELSE IF text # "" /\ SubSeq(text, 1, 1) = "["
    THEN ScanItems(text, 2, <<>>)
    ELSE IF text # "" /\ SubSeq(text, 1, 1) = "\""
    THEN LET item == ScanString(text, 2, "")
         IN  IF item.ok /\ item.next = Len(text) + 1 THEN Ok(Str(item.str))
             ELSE JSONDecodeError
    ELSE JSONDecodeError

\* ------------------------------------------------------------ the table
\* Columns of tracked_jobs in the order of SELECT_TRACKED_JOB.
JobColumns ==
    <<"id", "job_title", "company_name", "location", "description", "job_url",
      "source_linkedin_id", "match_percentage", "ranking_level", "matched_skills",
      "missing_skills", "status", "notes", "created_at", "updated_at",
      "last_viewed_at", "application_date", "rejection_date", "rejection_reason",
      "interview_date", "interview_stage", "salary_min", "salary_max", "source">>

ColumnSet == {JobColumns[i] : i \in 1..Len(JobColumns)}

\* Columns declared NOT NULL (the primary key included).
NotNullColumns ==
    {"id", "job_title", "company_name", "matched_skills", "missing_skills", "status"}

IntegrityError(msg) == Raise("IntegrityError", msg)

\* INSERT_TRACKED_JOB: the sixteen bound columns, NULL in the columns the
\* statement leaves out (none of them declares a default).
InsertedRow(job_id, job_data, now) ==
    [c \in ColumnSet |->
        CASE c = "id" -> job_id
          [] c = "job_title" -> Get(job_data, "job_title", Str(""))
          [] c = "company_name" -> Get(job_data, "company_name", Str(""))
          [] c = "location" -> Get(job_data, "location", Str(""))
          [] c = "description" -> Get(job_data, "description", Str(""))
          [] c = "job_url" -> Get(job_data, "job_url", Str(""))
          [] c = "source_linkedin_id" -> Get(job_data, "source_linkedin_id", Str(""))
          [] c = "match_percentage" -> Get(job_data, "match_percentage", PyInt(0))
          [] c = "ranking_level" -> Get(job_data, "ranking_level", Str("low"))
          [] c = "matched_skills" ->
               Str(json_dumps(Get(job_data, "matched_skills", PyList(<<>>))))
          [] c = "missing_skills" ->
               Str(json_dumps(Get(job_data, "missing_skills", PyList(<<>>))))
          [] c = "status" -> Get(job_data, "status", Str("new"))
          [] c = "notes" -> Get(job_data, "notes", Str(""))
          [] c = "source" -> Get(job_data, "source", Str("manual"))
          [] c = "created_at" -> now
          [] c = "updated_at" -> now
          [] OTHER -> None]

\* Mutation of ConstraintViolation: the primary key is not enforced, an
\* INSERT under a stored id replaces the row.
ConstraintViolationNoPrimaryKey(t, row, inserting) ==
    IF \E c \in NotNullColumns : row[c] = None
    THEN LET c == CHOOSE c \in NotNullColumns : row[c] = None
         IN  IntegrityError("NOT NULL constraint failed: tracked_jobs." \o c)
    ELSE Ok(row)

\* The constraint an INSERT or UPDATE of row violates in table t, if any.
ConstraintViolation(t, row, inserting) ==
    IF inserting /\ row["id"] \in DOMAIN t
    THEN IntegrityError("UNIQUE constraint failed: tracked_jobs.id")
    ELSE IF \E c \in NotNullColumns : row[c] = None
    THEN LET c == CHOOSE c \in NotNullColumns : row[c] = None
         IN  IntegrityError("NOT NULL constraint failed: tracked_jobs." \o c)
    ELSE Ok(row)

\* json.loads(text) if text else []
LoadSkills(v) ==
    IF v = None \/ v = Str("") THEN PyList(<<>>)
    ELSE json_loads(v.val).value

\* Mutation of _row_to_job_dict: the skill columns are returned as stored.
RowToJobDictRawSkills(row) == [c \in ColumnSet |-> row[c]]

\* _row_to_job_dict(row)
_row_to_job_dict(row) ==
    [c \in ColumnSet |->
        IF c \in {"matched_skills", "missing_skills"} THEN LoadSkills(row[c])
        ELSE row[c]]

\* What get_tracked_job(job_id) returns on table t.
SelectTrackedJob(t, job_id) ==
    IF job_id \in DOMAIN t THEN _row_to_job_dict(t[job_id]) ELSE None

\* A call of a store function that has completed with result.
Completed(call, result) == [op |-> call.op, args |-> call.args, result |-> result]

\* ------------------------------------------------------ save_tracked_job
\* str(uuid.uuid4()): identifiers the generator can return.
UuidPool == {Str("uuid-1"), Str("uuid-2")}

\* Mutation of RequiredFieldsMissing: only the title is required.
RequiredFieldsMissingTitleOnly(job_data) ==
    Falsy(Get(job_data, "job_title", Str("")))

\* not job_title or not company_name
RequiredFieldsMissing(job_data) ==
    \/ Falsy(Get(job_data, "job_title", Str("")))
    \/ Falsy(Get(job_data, "company_name", Str("")))

\* The dict save_tracked_job returns: job_data with id, created_at,
\* updated_at and the two skill lists after a json round trip.
SavedJob(job_data, job_id, now) ==
    Put(Put(Put(Put(Put(job_data,
                        "id", job_id),
                    "created_at", now),
                "updated_at", now),
            "matched_skills",
            json_loads(json_dumps(Get(job_data, "matched_skills", PyList(<<>>)))).value),
        "missing_skills",
        json_loads(json_dumps(Get(job_data, "missing_skills", PyList(<<>>)))).value)

\* save_tracked_job(job_data); fresh is what uuid4 returns if it is called.
save_tracked_job(job_data, fresh) ==
    LET supplied == Get(job_data, "id", None)
        job_id == IF Falsy(supplied) THEN fresh ELSE supplied
        now == Timestamp(db_clock + 1)
        inserted == ConstraintViolation(tracked_jobs,
                                        InsertedRow(job_id, job_data, now), TRUE)
        call == [op |-> "save_tracked_job", args |-> <<job_data>>]
    IN  /\ Falsy(supplied) => fresh \notin DOMAIN tracked_jobs
        /\ ~Falsy(supplied) => fresh = CHOOSE u \in UuidPool : TRUE
        /\ IF RequiredFieldsMissing(job_data)
           THEN /\ db_call' = Completed(call, Raise("ValueError", "job_title and company_name are required"))
                /\ UNCHANGED <<tracked_jobs, db_clock>>
           ELSE IF ~inserted.ok
           THEN /\ db_call' = Completed(call, inserted)
                /\ UNCHANGED <<tracked_jobs, db_clock>>
           ELSE /\ db_clock < MaxWrites
                /\ tracked_jobs' = Put(tracked_jobs, job_id, inserted.value)
                /\ db_clock' = db_clock + 1
                /\ db_call' = Completed(call, Ok(SavedJob(job_data, job_id, now)))
        /\ UNCHANGED <<batchVars, scorerVars, profileVars>>

\* ------------------------------------------------------- get_tracked_job
get_tracked_job(job_id) ==
    /\ db_call' = [op |-> "get_tracked_job", args |-> <<job_id>>,
                   result |-> Ok(SelectTrackedJob(tracked_jobs, job_id))]
    /\ UNCHANGED <<tracked_jobs, db_clock, batchVars, scorerVars, profileVars>>

\* ---------------------------------------------------- update_tracked_job
allowed_fields ==
    {"status", "notes", "application_date", "rejection_date", "rejection_reason",
     "interview_date", "interview_stage", "salary_min", "salary_max",
     "last_viewed_at"}

\* Mutation of SafeUpdates: every key of the request is written.
SafeUpdatesUnfiltered(updates) == updates

\* {k: v for k, v in updates.items() if k in allowed_fields}
SafeUpdates(updates) ==
    [k \in (DOMAIN updates) \cap allowed_fields |-> updates[k]]

\* UPDATE_TRACKED_JOB on one row
UpdatedRow(row, safe_updates, now) ==
    [c \in ColumnSet |->
        IF c \in DOMAIN safe_updates THEN safe_updates[c]
        ELSE IF c = "updated_at" THEN now
        ELSE row[c]]

update_tracked_job(job_id, updates) ==
    LET existing == SelectTrackedJob(tracked_jobs, job_id)
        safe_updates == SafeUpdates(updates)
        now == Timestamp(db_clock + 1)
        call == [op |-> "update_tracked_job", args |-> <<job_id, updates>>]
    IN  /\ IF existing = None
           THEN /\ db_call' = Completed(call, Ok(None))
                /\ UNCHANGED <<tracked_jobs, db_clock>>
           ELSE IF DOMAIN safe_updates = {}
           THEN /\ db_call' = Completed(call, Ok(existing))
                /\ UNCHANGED <<tracked_jobs, db_clock>>
           ELSE LET updated == ConstraintViolation(
                                  tracked_jobs,
                                  UpdatedRow(tracked_jobs[job_id], safe_updates, now),
                                  FALSE)
                IN  IF ~updated.ok
                    THEN /\ db_call' = Completed(call, updated)
                         /\ UNCHANGED <<tracked_jobs, db_clock>>
                    ELSE /\ db_clock < MaxWrites
                         /\ tracked_jobs' = [tracked_jobs EXCEPT ![job_id] = updated.value]
                         /\ db_clock' = db_clock + 1
                         /\ db_call' = Completed(call, Ok(_row_to_job_dict(updated.value)))
        /\ UNCHANGED <<batchVars, scorerVars, profileVars>>

\* ---------------------------------------------------- delete_tracked_job
\* Mutation of DeleteFrom: the WHERE clause is lost.
DeleteFromAll(t, job_id) ==
    [table |-> EmptyDict, rowcount |-> Cardinality(DOMAIN t)]

\* DELETE_TRACKED_JOB: the table afterwards and cursor.rowcount
DeleteFrom(t, job_id) ==
    [table |-> [k \in (DOMAIN t) \ {job_id} |-> t[k]],
     rowcount |-> IF job_id \in DOMAIN t THEN 1 ELSE 0]

delete_tracked_job(job_id) ==
    LET deleted == DeleteFrom(tracked_jobs, job_id)
    IN  /\ tracked_jobs' = deleted.table
        /\ UNCHANGED db_clock
        /\ db_call' = [op |-> "delete_tracked_job", args |-> <<job_id>>,
                       result |-> Ok(deleted.rowcount > 0)]
        /\ UNCHANGED <<batchVars, scorerVars, profileVars>>

\* ----------------------------------------------------- list_tracked_jobs
\* The printable ASCII characters in code order, the backquote left out
\* (the BINARY collation compares text by its bytes).
CharOrder ==
    " !\"#$%&'()*+,-./0123456789:;<=>?@ABCDEFGHIJKLMNOPQRSTUVWXYZ[\\]^_abcdefghijklmnopqrstuvwxyz{|}~"

CharRank(c) == CHOOSE i \in 1..Len(CharOrder) : SubSeq(CharOrder, i, i) = c

RECURSIVE TextLess(_, _)
TextLess(a, b) ==
    IF b = "" THEN FALSE
    ELSE IF a = "" THEN TRUE
    ELSE LET x == CharRank(SubSeq(a, 1, 1))
             y == CharRank(SubSeq(b, 1, 1))
         IN  IF x # y THEN x < y
             ELSE TextLess(SubSeq(a, 2, Len(a)), SubSeq(b, 2, Len(b)))

\* Storage classes in the order ORDER BY puts them: NULL, numbers, text.
StorageClass(v) == IF v = None THEN 0 ELSE IF v.type = "str" THEN 2 ELSE 1

\* a sorts strictly before b in ascending order
SortsBefore(a, b) ==
    IF StorageClass(a) # StorageClass(b) THEN StorageClass(a) < StorageClass(b)
    ELSE IF StorageClass(a) = 0 THEN FALSE
    ELSE IF StorageClass(a) = 2 THEN TextLess(a.val, b.val)
    ELSE a.val < b.val

\* column LIKE '%search%': case-insensitive containment (for a search text
\* without the wildcards % and _ ).
Like(v, search) ==
    /\ v # None
    /\ v.type = "str"
    /\ LET text == Lower(v.val)
           pattern == Lower(search.val)
       IN  Contains(text, pattern)

\* The WHERE clause list_tracked_jobs builds from filters and search.
Where(row, filters, search) ==
    /\ ~Falsy(Get(filters, "status", None)) =>
          /\ row["status"] # None
          /\ \E i \in 1..Len(filters["status"].val) :
                row["status"] = Str(filters["status"].val[i])
    /\ Get(filters, "min_match_percentage", None) # None =>
          /\ row["match_percentage"] # None
          /\ ~SortsBefore(row["match_percentage"], filters["min_match_percentage"])
    /\ ~Falsy(Get(filters, "ranking_level", None)) =>
          row["ranking_level"] = filters["ranking_level"]
    /\ ~Falsy(search) =>
          \/ Like(row["job_title"], search)
          \/ Like(row["company_name"], search)
          \/ Like(row["description"], search)

valid_sort_fields ==
    {"created_at", "match_percentage", "job_title", "company_name", "updated_at"}

\* The orders ORDER BY sort_by sort_order can return the rows ids of table t
\* in: rows with equal keys come in any order.
Orderings(t, ids, sort_by, descending) ==
    {q \in [1..Cardinality(ids) -> ids] :
        /\ \A i, j \in DOMAIN q : i # j => q[i] # q[j]
        /\ \A i, j \in DOMAIN q :
              i < j => IF descending
                       THEN ~SortsBefore(t[q[i]][sort_by], t[q[j]][sort_by])
                       ELSE ~SortsBefore(t[q[j]][sort_by], t[q[i]][sort_by])}

\* Mutation of Page: the LIMIT is lost.
PageNoLimit(q, pageSize, offset) == SubSeq(q, offset + 1, Len(q))

\* LIMIT pageSize OFFSET offset
Page(q, pageSize, offset) == SubSeq(q, offset + 1, Min(Len(q), offset + pageSize))

list_tracked_jobs(page, pageSize, filters, search, sortBy, sortOrder) ==
    LET fs == IF filters = None THEN EmptyDict ELSE filters
        offset == (page - 1) * pageSize
        sort_by == IF sortBy \in valid_sort_fields THEN sortBy ELSE "created_at"
        sort_order == IF Lower(sortOrder) \in {"asc", "desc"} THEN sortOrder ELSE "desc"
        selected == {id \in DOMAIN tracked_jobs : Where(tracked_jobs[id], fs, search)}
        total == Cardinality(selected)
    IN  /\ \E q \in Orderings(tracked_jobs, selected, sort_by, Lower(sort_order) = "desc") :
              LET rows == Page(q, pageSize, offset)
              IN  db_call' =
                     [op |-> "list_tracked_jobs",
                      args |-> <<page, pageSize, filters, search, sortBy, sortOrder>>,
                      result |-> Ok([jobs |-> [i \in 1..Len(rows) |->
                                                 _row_to_job_dict(tracked_jobs[rows[i]])],
                                     total |-> total])]
        /\ UNCHANGED <<tracked_jobs, db_clock, batchVars, scorerVars, profileVars>>

\* ----------------------------------------------------- store inputs
\* Job data a caller saves (the fields of TrackJobRequest).
TrackFull ==
    [job_title |-> Str("Python Developer"),
     company_name |-> Str("TechCorp"),
     location |-> Str("Remote"),
     description |-> Str("Python, FastAPI"),
     job_url |-> Str("https://x.co/1"),
     match_percentage |-> PyInt(85),
     ranking_level |-> Str("high"),
     matched_skills |-> PyList(<<"Python", "FastAPI">>),
     missing_skills |-> PyList(<<"Kubernetes">>)]

TrackMinimal == [job_title |-> Str("Dev"), company_name |-> Str("Co")]

TrackWithId ==
    [id |-> Str("job-c"),
     job_title |-> Str("C# \"Lead\" Developer"),
     company_name |-> Str("Dev, Inc."),
     match_percentage |-> PyInt(70),
     ranking_level |-> Str("medium"),
     matched_skills |-> PyList(<<"C#", "say \"hi\"", "a, b\\c">>),
     missing_skills |-> PyList(<<>>),
     status |-> Str("applied"),
     notes |-> Str("referred")]

TrackNoTitle == [job_title |-> Str(""), company_name |-> Str("Co")]
TrackNoCompany == [id |-> Str("job-c"), job_title |-> Str("Dev")]
TrackNullTitle == [job_title |-> None, company_name |-> Str("Co")]

TrackedJobPool ==
    {TrackFull, TrackMinimal, TrackWithId, TrackNoTitle, TrackNoCompany, TrackNullTitle}

\* Identifiers a caller passes to get, update and delete.
JobIdPool == UuidPool \cup {Str("job-c")}

UpdateApplied == [status |-> Str("applied"), notes |-> Str("Applied via LinkedIn")]
UpdateMixed ==
    [match_percentage |-> PyInt(99), job_title |-> Str("CEO"), salary_min |-> PyInt(100000)]
UpdateScoresOnly == [match_percentage |-> PyInt(99), matched_skills |-> Str("[]")]
UpdateNullStatus == [status |-> None]

UpdatePool == {UpdateApplied, UpdateMixed, UpdateScoresOnly, UpdateNullStatus}

\* Queries of list_tracked_jobs: filters, search, sortBy, sortOrder.
QueryAll ==
    [filters |-> None, search |-> None, sortBy |-> "created_at", sortOrder |-> "desc"]
QueryApplied ==
    [filters |-> [status |-> PyList(<<"applied", "interview">>),
                  min_match_percentage |-> PyInt(70)],
     search |-> None, sortBy |-> "match_percentage", sortOrder |-> "asc"]
QueryHighDev ==
    [filters |-> [ranking_level |-> Str("high")],
     search |-> Str("dev"), sortBy |-> "job_title", sortOrder |-> "ASC"]
QueryEmptyFilters ==
    [filters |-> [status |-> PyList(<<>>), min_match_percentage |-> PyInt(0),
                  ranking_level |-> Str("")],
     search |-> Str(""), sortBy |-> "id; DROP TABLE tracked_jobs", sortOrder |-> "sideways"]

QueryPool == {QueryAll, QueryApplied, QueryHighDev, QueryEmptyFilters}

Pages == 1..2
PageSizes == 1..2

\* ------------------------------------------------ store specifications
\* The writes and the read by id, in any order.
JobStoreNext ==
    \/ \E job_data \in TrackedJobPool, fresh \in UuidPool : save_tracked_job(job_data, fresh)
    \/ \E job_id \in JobIdPool : get_tracked_job(job_id)
    \/ \E job_id \in JobIdPool, updates \in UpdatePool : update_tracked_job(job_id, updates)
    \/ \E job_id \in JobIdPool : delete_tracked_job(job_id)

JobStoreSpec == Init /\ [][JobStoreNext]_vars

\* The listing, over the tables that saves build.
JobListNext ==
    \/ \E job_data \in TrackedJobPool, fresh \in UuidPool : save_tracked_job(job_data, fresh)
    \/ \E page \in Pages, pageSize \in PageSizes, query \in QueryPool :
          list_tracked_jobs(page, pageSize, query.filters, query.search,
                            query.sortBy, query.sortOrder)

JobListSpec == Init /\ [][JobListNext]_vars

\* ==================================================== user profile store
\* Bound on the number of save_user_profile calls.
MaxSaves == 3

\* Profiles a caller saves.
ProfileOriginal ==
    [name |-> Str("Original Name"), skills |-> PyList(<<"Python">>),
     experience |-> Str("3 years"), summary |-> Str("Original summary")]
ProfileUpdated ==
    [name |-> Str("Updated Name"), skills |-> PyList(<<"Python", "Go">>),
     experience |-> Str("5 years"), summary |-> Str("Updated summary")]

UserProfilePool == {ProfileOriginal, ProfileUpdated}

\* The UserProfile built from a row of user_profile.
RowToProfile(row) ==
    [id |-> row.id, name |-> row.name, skills |-> json_loads(row.skills.val).value,
     experience |-> row.experience, summary |-> row.summary]

\* SELECT_PROFILE (LIMIT 1, rows in rowid order) and what get_user_profile
\* returns for it.
SelectProfile(rows) == IF rows = <<>> THEN None ELSE RowToProfile(rows[1])

\* save_user_profile(profile) is called by caller c: it runs up to the await
\* of get_user_profile.
save_user_profile(c, profile) ==
    /\ saves[c].pc = "idle"
    /\ saves_started < MaxSaves
    /\ saves_started' = saves_started + 1
    /\ saves' = [saves EXCEPT ![c] = [pc |-> "reading", profile |-> profile]]
    /\ UNCHANGED <<user_profile_rows, profile_seq, last_saved>>
    /\ UNCHANGED <<batchVars, scorerVars, jobStoreVars>>

\* The get_user_profile call of caller c's save completes: existing is the
\* profile stored at that moment, and the save goes on to open its own
\* connection.
get_user_profile(c) ==
    /\ saves[c].pc = "reading"
    /\ saves' = [saves EXCEPT ![c] = [pc |-> "writing",
                                       profile |-> saves[c].profile,
                                       existing |-> SelectProfile(user_profile_rows),
                                       skills_json |-> Str(json_dumps(saves[c].profile.skills))]]
    /\ UNCHANGED <<user_profile_rows, profile_seq, saves_started, last_saved>>
    /\ UNCHANGED <<batchVars, scorerVars, jobStoreVars>>

\* UPDATE_PROFILE ... WHERE id = ?
UpdateProfile(rows, id, values) ==
    [i \in 1..Len(rows) |->
        IF rows[i].id = id
        THEN [id |-> id, name |-> values.name, skills |-> values.skills,
              experience |-> values.experience, summary |-> values.summary]
        ELSE rows[i]]

\* The save of caller c writes and commits: UPDATE of the row it read, or
\* INSERT of a new row under the next AUTOINCREMENT id, and returns the
\* profile with that id.
SaveCommit(c) ==
    LET call == saves[c]
        values == [name |-> call.profile.name, skills |-> call.skills_json,
                   experience |-> call.profile.experience,
                   summary |-> call.profile.summary]
        lastrowid == profile_seq + 1
    IN  /\ call.pc = "writing"
        /\ IF call.existing # None
           THEN /\ user_profile_rows' =
                      UpdateProfile(user_profile_rows, call.existing.id, values)
                /\ last_saved' = [id |-> call.existing.id] @@ call.profile
                /\ UNCHANGED profile_seq
           ELSE /\ user_profile_rows' =
                      Append(user_profile_rows, [id |-> PyInt(lastrowid)] @@ values)
                /\ profile_seq' = lastrowid
                /\ last_saved' = [id |-> PyInt(lastrowid)] @@ call.profile
        /\ saves' = [saves EXCEPT ![c] = NoSave]
        /\ UNCHANGED saves_started
        /\ UNCHANGED <<batchVars, scorerVars, jobStoreVars>>

ProfileNext ==
    \/ \E c \in Callers, profile \in UserProfilePool : save_user_profile(c, profile)
    \/ \E c \in Callers : get_user_profile(c)
    \/ \E c \in Callers : SaveCommit(c)

ProfileSpec == Init /\ [][ProfileNext]_vars

\* ============================================================ properties
Finished == pc \in {"returned", "raised"}
LLMReturned == pc = "returned" /\ ~quick_mode
QuickReturned == pc = "returned" /\ quick_mode

TimedOut == Transport("APITimeoutError", "Request timed out.")

\* C1: every finished call of match_jobs_batch_service, in either mode and
\* for every job list, has returned a list with exactly as many entries as
\* the input job list (the empty list gives the empty list).
C1_ReturnsOneEntryPerJob ==
    Finished => (pc = "returned" /\ Len(ret) = Len(jobs))

\* C2: in LLM mode the entry at position i of the returned list carries the
\* job identifier of the input job at position i, whatever the order in
\* which the tasks finished and whichever of them failed.
C2_EntryCarriesInputJobId ==
    LLMReturned =>
        /\ Len(ret) = Len(jobs)
        /\ \A i \in 1..Len(jobs) :
              /\ "job_id" \in DOMAIN ret[i]
              /\ ret[i].job_id = Get(jobs[i], "job_id", None)

\* A batch of two jobs with different identifiers whose second task finished
\* first, the first task failing and the second succeeding.
C2_Witness ==
    /\ LLMReturned
    /\ out_of_order
    /\ jobs = <<JobExample, JobNoOverlap>>
    /\ ~tasks[1].outcome.ok
    /\ tasks[2].outcome.ok
    /\ ret[1].job_id = Str("1")
    /\ ret[2].job_id = Str("2")

\* C3: in LLM mode match_jobs_batch_service never raises, and the entry of
\* every job whose task failed (transport error, invalid JSON, missing key,
\* ...) is the degraded placeholder: the job's identifier, match_score 0,
\* ranking_level "none", empty skill lists, the summary "Error during AI
\* scoring" and the failure's message as error.
C3_FailureBecomesPlaceholder ==
    ~quick_mode =>
        /\ pc # "raised"
        /\ pc = "returned" =>
              \A i \in 1..Len(jobs) :
                 ~tasks[i].outcome.ok =>
                    /\ ret[i] = [job_id |-> Get(jobs[i], "job_id", None),
                                 match_score |-> PyInt(0),
                                 ranking_level |-> Str("none"),
                                 matched_skills |-> PyList(<<>>),
                                 missing_skills |-> PyList(<<>>),
                                 summary |-> Str("Error during AI scoring"),
                                 error |-> Str(tasks[i].outcome.exc.msg)]
                    /\ tasks[i].response = TimedOut =>
                          ret[i].error = Str("Request timed out.")

\* A returned batch in which one task got a response without ranking_level
\* and another one a transport error.
C3_Witness ==
    /\ LLMReturned
    /\ \E i, j \in 1..Len(jobs) :
          /\ tasks[i].response = Content(RawNoRanking)
          /\ ret[i].ranking_level = Str("none")
          /\ ret[i].error =
                Str("LLM response is missing required keys: ranking_level. "
                    \o "Expected keys: match_percentage, matched_skills, "
                    \o "missing_skills, ranking_level, summary. Raw (truncated): "
                    \o RawNoRanking)
          /\ tasks[j].response = TimedOut
          /\ ret[j].error = Str("Request timed out.")

\* C4: in LLM mode the entry of job j is a function of job j, the profile
\* and the provider's response for job j alone, so it is the same whatever
\* happens to the other tasks; every task runs to its own end (none is
\* cancelled), and a valid answer for job j gives a scored entry, not a
\* placeholder.
C4_EntryDependsOnOwnTaskOnly ==
    (~quick_mode /\ Finished) =>
        /\ pc = "returned"
        /\ Len(ret) = Len(jobs)
        /\ \A j \in 1..Len(jobs) :
              LET own == _score_job_llm(jobs[j], user_profile, tasks[j].response)
              IN  /\ tasks[j].state = "done"
                  /\ ret[j] = IF own.ok THEN own.value ELSE Placeholder(jobs[j], own.exc)
                  /\ tasks[j].response = Content(RawGood) =>
                        /\ "error" \notin DOMAIN ret[j]
                        /\ ret[j].match_score = PyInt(85)
                        /\ ret[j].ranking_level = Str("high")
                        /\ ret[j].matched_skills = PyList(<<"python">>)

\* The task of the first job timed out after the task of the second job had
\* finished with a valid answer.
C4_Witness ==
    /\ LLMReturned
    /\ out_of_order
    /\ Len(jobs) = 2
    /\ tasks[1].response = TimedOut
    /\ "error" \in DOMAIN ret[1]
    /\ tasks[2].response = Content(RawGood)
    /\ ret[2].match_score = PyInt(85)
    /\ "error" \notin DOMAIN ret[2]

\* C5: every entry of a returned list that has a non-null error field has
\* ranking_level "none" and match_score 0.
C5_ErrorMeansNoneAndZero ==
    pc = "returned" =>
        \A i \in 1..Len(ret) :
           ("error" \in DOMAIN ret[i] /\ ret[i].error # None) =>
              /\ ret[i].ranking_level = Str("none")
              /\ ret[i].match_score = PyInt(0)

\* C6: every entry of a returned list has a match_score within 0..100, in
\* quick mode and in LLM mode; a match_percentage above 100 gives 100 and
\* one below 0 gives 0.
C6_MatchScoreWithinRange ==
    pc = "returned" =>
        \A i \in 1..Len(ret) :
           /\ ret[i].match_score.val \in 0..100
           /\ (~quick_mode /\ tasks[i].response = Content(RawOver)) =>
                 ret[i].match_score.val = 100
           /\ (~quick_mode /\ tasks[i].response = Content(RawUnder)) =>
                 ret[i].match_score.val = 0

\* The provider returned 150 for one job and -5 for the other.
C6_Witness ==
    /\ LLMReturned
    /\ Len(jobs) = 2
    /\ tasks[1].response = Content(RawOver)
    /\ ret[1].match_percentage = PyInt(150)
    /\ ret[1].match_score = PyInt(100)
    /\ tasks[2].response = Content(RawUnder)
    /\ ret[2].match_percentage = PyInt(-5)
    /\ ret[2].match_score = PyInt(0)

\* C7: in every entry of a returned list matched_skills and missing_skills
\* have at most 5 entries each.
C7_AtMostFiveSkills ==
    pc = "returned" =>
        \A i \in 1..Len(ret) :
           /\ Len(ret[i].matched_skills.val) <= 5
           /\ Len(ret[i].missing_skills.val) <= 5

\* A profile of seven skills scored against a job that names all seven and
\* against a job that names none.
C7_Witness ==
    /\ QuickReturned
    /\ user_profile = ProfileRich
    /\ jobs = <<JobRich, JobNoOverlap>>
    /\ Len(MatchedSkills([i \in 1..7 |-> Lower(ProfileRich.skills.val[i])],
                         Lower(JobRich.description.val),
                         Lower(JobRich.job_title.val))) = 7
    /\ Len(ret[1].matched_skills.val) = 5
    /\ Len(ret[2].missing_skills.val) = 5

\* C8 as stated: the example profile and job score 90 with ranking "high".
C8_ExampleScores90High ==
    (QuickReturned /\ user_profile = ProfileExample) =>
        \A i \in 1..Len(jobs) :
           jobs[i] = JobExample =>
              /\ ret[i].match_score = PyInt(90)
              /\ ret[i].ranking_level = Str("high")

\* C8 (amended): for the profile with skills ["Python","FastAPI"], target
\* role "Backend Engineer" and experience "senior backend", and the job
\* titled "Senior Backend Engineer" whose description contains "Python and
\* FastAPI required", the heuristic scorer returns match_score 60 (20 for
\* the two matched skills + 30 for the role in the title + 10 for senior in
\* both title and experience) and ranking_level "medium".
C8_ExampleScores60Medium ==
    (QuickReturned /\ user_profile = ProfileExample) =>
        \A i \in 1..Len(jobs) :
           jobs[i] = JobExample =>
              /\ ret[i].match_score = PyInt(60)
              /\ ret[i].ranking_level = Str("medium")
              /\ ret[i].matched_skills = PyList(<<"python", "fastapi">>)
              /\ ret[i].missing_skills = PyList(<<>>)
              /\ ret[i].summary = Str("60% match - 2 skills match, medium fit")

\* The example job scored against the example profile in quick mode.
C8_Witness ==
    /\ QuickReturned
    /\ user_profile = ProfileExample
    /\ jobs = <<JobExample>>
    /\ ret[1].job_id = Str("1")
    /\ ret[1].match_score = PyInt(60)

\* C9: the heuristic ranking_level is determined by the match_score alone:
\* "high" exactly when it is >= 70, "medium" exactly when it is in 50..69,
\* "low" exactly when it is below 50; the job without keyword overlap scored
\* against the profile without skills gets 0 and "low".
C9_RankingFollowsThresholds ==
    QuickReturned =>
        \A i \in 1..Len(ret) :
           LET score == ret[i].match_score.val
               level == ret[i].ranking_level.val
           IN  /\ level \in {"high", "medium", "low"}
               /\ level = "high" <=> score >= 70
               /\ level = "medium" <=> (score >= 50 /\ score < 70)
               /\ level = "low" <=> score < 50
               /\ (jobs[i] = JobNoOverlap /\ user_profile = ProfileEmpty) =>
                     (score = 0 /\ level = "low")

\* The job without keyword overlap and a second job, scored in quick mode
\* against the profile without skills.
C9_Witness ==
    /\ QuickReturned
    /\ user_profile = ProfileEmpty
    /\ jobs = <<JobNoOverlap, JobRich>>
    /\ ret[1].match_score = PyInt(0)
    /\ ret[1].ranking_level = Str("low")
    /\ ret[2].match_score = PyInt(10)

\* C10: the heuristic scorer never raises: a quick-mode call never ends with
\* an exception, whatever fields of the job or the profile are absent or
\* null.
C10_HeuristicNeverRaises ==
    quick_mode => pc # "raised"

\* C11: in LLM mode the job_id of every entry whose task succeeded is the
\* job_id of the input job it was computed for (None when the job has none),
\* whatever job_id the provider's JSON contains: a provider that echoes the
\* job_id "999" does not change it.
C11_JobIdIsTheInputJobsId ==
    LLMReturned =>
        \A i \in 1..Len(jobs) :
           tasks[i].outcome.ok =>
              /\ ret[i].job_id = Get(jobs[i], "job_id", None)
              /\ tasks[i].response = Content(RawGood) =>
                    /\ JsonLoads(RawGood).value.val["job_id"] = Str("999")
                    /\ ret[i].job_id # Str("999")

\* The provider echoed job_id "999" for job "1" and, in the same batch, for
\* the job that has no job_id.
C11_Witness ==
    /\ LLMReturned
    /\ jobs = <<JobExample, JobNullTitle>>
    /\ tasks[1].response = Content(RawGood)
    /\ tasks[2].response = Content(RawGood)
    /\ tasks[1].outcome.ok
    /\ tasks[2].outcome.ok
    /\ ret[1].job_id = Str("1")
    /\ ret[2].job_id = None

\* C12: in LLM mode every one of the N tasks exists before any of them runs
\* or is awaited, match_jobs_batch_service returns only when each of the N
\* tasks is done (with a result or an exception), and no result list is
\* visible to the caller while a task is still pending.
C12_ReturnsAfterEveryTaskIsDone ==
    ~quick_mode =>
        /\ (\E i \in 1..Len(tasks) : tasks[i].state # "created") =>
              Len(tasks) = Len(jobs)
        /\ pc = "gathering" => (Len(tasks) = Len(jobs) /\ ret = <<>>)
        /\ pc = "returned" =>
              /\ Len(tasks) = Len(jobs)
              /\ \A i \in 1..Len(tasks) : tasks[i].state = "done"
        /\ (\E i \in 1..Len(tasks) : tasks[i].state # "done") =>
              (pc = "gathering" /\ ret = <<>> /\ raised = None)

\* A batch of two jobs returned after both tasks ran to their end, one with
\* a result and one with an exception.
C12_Witness ==
    /\ LLMReturned
    /\ Len(jobs) = 2
    /\ Len(ret) = 2
    /\ tasks[1].state = "done"
    /\ tasks[2].state = "done"
    /\ tasks[1].response = Content(RawOver)
    /\ tasks[1].outcome.ok
    /\ tasks[2].response = Content(RawInvalid)
    /\ ~tasks[2].outcome.ok

\* C13: a request to batch-score-jobs whose jobs list is empty (or absent) is
\* rejected with HTTP status 422, and match_jobs_batch_service is not
\* invoked for it.
C13_EmptyBatchRejectedWith422 ==
    pc = "rejected" =>
        /\ http_status = 422
        /\ jobs = <<>>
        /\ tasks = <<>>
        /\ ret = <<>>

\* The call that has just completed is a call of op.
JustCalled(op) == db_call # None /\ db_call.op = op

\* The fields of a tracked job that C14 and C16 speak about.
ScoreFields ==
    {"job_title", "company_name", "match_percentage", "ranking_level",
     "matched_skills", "missing_skills"}

\* The value a field has when the saved job data does not supply it.
DefaultOf(field) ==
    CASE field = "match_percentage" -> PyInt(0)
      [] field = "ranking_level" -> Str("low")
      [] field \in {"matched_skills", "missing_skills"} -> PyList(<<>>)
      [] field = "status" -> Str("new")
      [] OTHER -> Str("")

\* C14: when save_tracked_job succeeds, get_tracked_job on the returned id
\* returns a job whose job_title, company_name, match_percentage,
\* ranking_level, matched_skills, missing_skills and status equal the saved
\* values (the defaults where a field was not supplied); these fields, as
\* get_tracked_job returns them, stay so through every call that is not an
\* update or a delete of that job, and get_tracked_job returns what is stored.
C14_SavedJobReadsBack ==
    [][/\ (db_call'.op = "save_tracked_job" /\ db_call'.result.ok) =>
             LET job_data == db_call'.args[1]
                 got == SelectTrackedJob(tracked_jobs', db_call'.result.value["id"])
             IN  /\ got # None
                 /\ \A f \in ScoreFields \cup {"status"} :
                       got[f] = Get(job_data, f, DefaultOf(f))
       /\ \A id \in DOMAIN tracked_jobs :
             \/ /\ db_call'.op \in {"update_tracked_job", "delete_tracked_job"}
                /\ db_call'.args[1] = id
             \/ /\ id \in DOMAIN tracked_jobs'
                /\ \/ tracked_jobs'[id] = tracked_jobs[id]
                   \/ LET before == SelectTrackedJob(tracked_jobs, id)
                          after == SelectTrackedJob(tracked_jobs', id)
                      IN  \A f \in ScoreFields \cup {"status"} : after[f] = before[f]
       /\ db_call'.op = "get_tracked_job" =>
             db_call'.result = Ok(SelectTrackedJob(tracked_jobs, db_call'.args[1]))
      ]_vars

\* get_tracked_job has just returned the job saved under "job-c", with its
\* three skills (quotes, comma and backslash included) and its status, while
\* a second job is stored.
C14_Witness ==
    /\ JustCalled("get_tracked_job")
    /\ db_call.args = <<Str("job-c")>>
    /\ Cardinality(DOMAIN tracked_jobs) = 2
    /\ tracked_jobs[Str("job-c")]["matched_skills"]
          = Str("[\"C#\", \"say \\\"hi\\\"\", \"a, b\\\\c\"]")
    /\ db_call.result.value # None
    /\ db_call.result.value["matched_skills"] = TrackWithId.matched_skills
    /\ db_call.result.value["missing_skills"] = PyList(<<>>)
    /\ db_call.result.value["status"] = Str("applied")
    /\ db_call.result.value["match_percentage"] = PyInt(70)

\* C15: delete_tracked_job returns True exactly when a job with that id was
\* stored; afterwards get_tracked_job on that id returns None; for an id that
\* was not stored it returns False and the store is unchanged.
C15_DeleteReturnsWhetherStored ==
    [][db_call'.op = "delete_tracked_job" =>
          LET job_id == db_call'.args[1]
          IN  /\ db_call'.result = Ok(job_id \in DOMAIN tracked_jobs)
              /\ SelectTrackedJob(tracked_jobs', job_id) = None
              /\ job_id \notin DOMAIN tracked_jobs => tracked_jobs' = tracked_jobs
      ]_vars

\* delete_tracked_job has just returned True for a stored job: the job is
\* gone and another job is still stored.
C15_Witness ==
    /\ JustCalled("delete_tracked_job")
    /\ db_call.result = Ok(TRUE)
    /\ db_call.args[1] \notin DOMAIN tracked_jobs
    /\ Cardinality(DOMAIN tracked_jobs) = 1

\* The columns C16 lets update_tracked_job change.
MetadataColumns ==
    {"status", "notes", "application_date", "rejection_date", "rejection_reason",
     "interview_date", "interview_stage", "salary_min", "salary_max",
     "last_viewed_at", "updated_at"}

\* C16: a call of update_tracked_job changes, in the job it names, only
\* metadata columns and updated_at: id, job_title, company_name,
\* match_percentage, ranking_level, matched_skills and missing_skills (and
\* every other column outside the metadata) keep their values; every other
\* stored job is unchanged, and no job is added or removed.
C16_UpdateKeepsScoresAndOtherJobs ==
    [][db_call'.op = "update_tracked_job" =>
          /\ DOMAIN tracked_jobs' = DOMAIN tracked_jobs
          /\ \A id \in DOMAIN tracked_jobs :
                /\ id # db_call'.args[1] => tracked_jobs'[id] = tracked_jobs[id]
                /\ \A c \in (ScoreFields \cup {"id"}) \cup (ColumnSet \ MetadataColumns) :
                      tracked_jobs'[id][c] = tracked_jobs[id][c]
      ]_vars

\* update_tracked_job has just applied a request that carries a salary
\* bound next to a new title and a new match percentage, while two jobs are
\* stored: the salary bound is written, title and percentage are not.
C16_Witness ==
    /\ JustCalled("update_tracked_job")
    /\ db_call.args[2] = UpdateMixed
    /\ db_call.result.ok
    /\ db_call.result.value # None
    /\ Cardinality(DOMAIN tracked_jobs) = 2
    /\ tracked_jobs[db_call.args[1]]["salary_min"] = PyInt(100000)
    /\ tracked_jobs[db_call.args[1]]["job_title"] # Str("CEO")
    /\ tracked_jobs[db_call.args[1]]["match_percentage"] # PyInt(99)
    /\ tracked_jobs[db_call.args[1]]["updated_at"]
          # tracked_jobs[db_call.args[1]]["created_at"]

\* C17: save_tracked_job with an empty or missing job_title or company_name
\* raises ValueError and adds no row.
C17_SaveWithoutTitleOrCompanyRaises ==
    [][(/\ db_call'.op = "save_tracked_job"
        /\ \/ Get(db_call'.args[1], "job_title", Str("")) = Str("")
           \/ Get(db_call'.args[1], "company_name", Str("")) = Str("")) =>
          /\ ~db_call'.result.ok
          /\ db_call'.result.exc.kind = "ValueError"
          /\ tracked_jobs' = tracked_jobs
      ]_vars

\* A save without company_name has just raised ValueError although it named
\* an id that is free, while one job is stored.
C17_Witness ==
    /\ JustCalled("save_tracked_job")
    /\ db_call.args = <<TrackNoCompany>>
    /\ ~db_call.result.ok
    /\ db_call.result.exc = [kind |-> "ValueError",
                             msg |-> "job_title and company_name are required"]
    /\ Cardinality(DOMAIN tracked_jobs) = 1
    /\ Str("job-c") \notin DOMAIN tracked_jobs

\* A job satisfies the filters and the search text of a listing.
Satisfies(job, filters, search) ==
    LET fs == IF filters = None THEN EmptyDict ELSE filters
        wanted == IF "status" \in DOMAIN fs
                  THEN {fs["status"].val[i] : i \in 1..Len(fs["status"].val)}
                  ELSE {}
        texts == {job[c].val : c \in {c \in {"job_title", "company_name", "description"} :
                                         job[c] # None}}
    IN  /\ wanted # {} => (job["status"] # None /\ job["status"].val \in wanted)
        /\ ("min_match_percentage" \in DOMAIN fs /\ fs["min_match_percentage"] # None) =>
              /\ job["match_percentage"] # None
              /\ job["match_percentage"].val >= fs["min_match_percentage"].val
        /\ ("ranking_level" \in DOMAIN fs /\ fs["ranking_level"] \notin {None, Str("")}) =>
              job["ranking_level"] = fs["ranking_level"]
        /\ search \notin {None, Str("")} =>
              \E t \in texts : Contains(Lower(t), Lower(search.val))

\* C18: for page >= 1 and pageSize >= 1, list_tracked_jobs returns at most
\* pageSize jobs, each of which satisfies the filters, and a total equal to
\* the number of stored jobs that satisfy the filters, whatever page and
\* pageSize are.
C18_ListReturnsAtMostPageSizeAndTotal ==
    JustCalled("list_tracked_jobs") =>
        LET page == db_call.args[1]
            pageSize == db_call.args[2]
            filters == db_call.args[3]
            search == db_call.args[4]
            result == db_call.result.value
            satisfying == {id \in DOMAIN tracked_jobs :
                             Satisfies(SelectTrackedJob(tracked_jobs, id), filters, search)}
        IN  (page >= 1 /\ pageSize >= 1) =>
               /\ Len(result.jobs) <= pageSize
               /\ \A i \in 1..Len(result.jobs) :
                     /\ result.jobs[i]["id"] \in satisfying
                     /\ result.jobs[i] = SelectTrackedJob(tracked_jobs, result.jobs[i]["id"])
               /\ result.total = Cardinality(satisfying)

\* The second page of size 1 of an unfiltered listing of three stored jobs:
\* one job, total 3.
C18_Witness ==
    /\ JustCalled("list_tracked_jobs")
    /\ db_call.args[1] = 2
    /\ db_call.args[2] = 1
    /\ db_call.args[3] = None
    /\ Cardinality(DOMAIN tracked_jobs) = 3
    /\ Len(db_call.result.value.jobs) = 1
    /\ db_call.result.value.total = 3

\* C19: the store holds at most one user profile row: after any sequence or
\* interleaving of save_user_profile calls, once a save has completed exactly
\* one row exists, and get_user_profile returns the profile (id and values)
\* that the last completed save returned.
C19_SingleProfileRow ==
    /\ Len(user_profile_rows) <= 1
    /\ last_saved # None =>
          /\ Len(user_profile_rows) = 1
          /\ SelectProfile(user_profile_rows) = last_saved

\* The text of a provider response, stripped as _call_llm strips it.
AnswerText == Strip(llm_call.response.content.val)

\* The required keys that the object parsed from the answer lacks, sorted.
AnswerMissing ==
    SelectSeq(<<"match_percentage", "matched_skills", "missing_skills",
                "ranking_level", "summary">>,
              LAMBDA k : k \notin DOMAIN JsonLoads(AnswerText).value.val)

StartsWith(s, prefix) == Len(s) >= Len(prefix) /\ SubSeq(s, 1, Len(prefix)) = prefix

\* C20: _score_job_llm yields a result only when the provider's text parses
\* as a JSON object that has all five required keys, and the result then has
\* all five; a text that is not valid JSON fails with the parse error; an
\* object that lacks required keys fails with an error whose list of missing
\* keys names exactly the keys that are missing.
C20_ResultOnlyFromCompleteJsonObject ==
    llm_call # None =>
        /\ llm_call.outcome.ok =>
              /\ llm_call.response.kind = "content"
              /\ JsonLoads(AnswerText).ok
              /\ JsonLoads(AnswerText).value.type = "dict"
              /\ AnswerMissing = <<>>
              /\ \A k \in {"match_percentage", "matched_skills", "missing_skills",
                           "ranking_level", "summary"} :
                    k \in DOMAIN llm_call.outcome.value
        /\ (llm_call.response.kind = "content" /\ ~JsonLoads(AnswerText).ok) =>
              /\ ~llm_call.outcome.ok
              /\ llm_call.outcome.exc.kind = "ValueError"
              /\ StartsWith(llm_call.outcome.exc.msg,
                            "AI returned an invalid JSON response.")
        /\ (/\ llm_call.response.kind = "content"
            /\ JsonLoads(AnswerText).ok
            /\ JsonLoads(AnswerText).value.type = "dict"
            /\ AnswerMissing # <<>>) =>
              /\ ~llm_call.outcome.ok
              /\ llm_call.outcome.exc.kind = "ValueError"
              /\ StartsWith(llm_call.outcome.exc.msg,
                            "LLM response is missing required keys: "
                            \o Join(AnswerMissing) \o ". Expected keys: ")

\* The provider answered with an object that has only match_percentage and
\* summary: the call failed and the error lists the three other keys.
C20_Witness ==
    /\ llm_call # None
    /\ llm_call.response =
          Content("{\"match_percentage\": 70, \"summary\": \"No level\"}")
    /\ ~llm_call.outcome.ok
    /\ StartsWith(llm_call.outcome.exc.msg,
                  "LLM response is missing required keys: matched_skills, "
                  \o "missing_skills, ranking_level. Expected keys: match_percentage, ")

\* C21: a failure of the provider call leaves _score_job_llm as the
\* transport's own exception, whose kind is none of the kinds a malformed
\* content fails with, and the error text the batch writes for it differs
\* from the error text of every malformed-content failure of the same job.
ContentFailureKinds == {"ValueError", "TypeError", "AttributeError"}

C21_TransportFailureIsDistinct ==
    (llm_call # None /\ ~llm_call.outcome.ok) =>
        IF llm_call.response.kind = "raise"
        THEN /\ llm_call.outcome.exc = llm_call.response.exc
             /\ llm_call.outcome.exc.kind \notin ContentFailureKinds
             /\ \A r \in ScorerResponses :
                   LET other == _score_job_llm(llm_call.job, llm_call.user_profile, r)
                   IN  (r.kind = "content" /\ ~other.ok) =>
                          Placeholder(llm_call.job, llm_call.outcome.exc).error
                             # Placeholder(llm_call.job, other.exc).error
        ELSE llm_call.outcome.exc.kind \in ContentFailureKinds

C21_Witness ==
    /\ llm_call # None
    /\ llm_call.response = Transport("RateLimitError", "Error code: 429 - Rate limit reached")
    /\ ~llm_call.outcome.ok
    /\ llm_call.outcome.exc.kind = "RateLimitError"
    /\ \E r \in ScorerResponses :
          /\ r.kind = "content"
          /\ ~_score_job_llm(llm_call.job, llm_call.user_profile, r).ok

\* The lowered inputs of the heuristic call the state records.
CallTitle == heuristic_call.locals.job_title
CallDescription == heuristic_call.locals.description
CallRole == heuristic_call.locals.target_role
CallExperience == heuristic_call.locals.experience
CallSkills == heuristic_call.locals.user_skills

HeuristicReturned == heuristic_call # None /\ heuristic_call.outcome.ok

\* C22 as stated: the role component is 30 when the target role is a
\* substring of the title, else 15 when it is a substring of the first 500
\* characters of the description, else 0, for every target role, the empty
\* one included (the empty string is a substring of every title).
C22_RoleScoreForEveryRole ==
    HeuristicReturned =>
        heuristic_call.locals.role_score =
            IF Contains(CallTitle, CallRole) THEN 30
            ELSE IF Contains(SubSeq(CallDescription, 1, Min(500, Len(CallDescription))),
                             CallRole) THEN 15
            ELSE 0

\* C22 amended: an empty or absent target role scores 0; a non-empty one
\* scores 30 when it is a substring of the title, else 15 when it is a
\* substring of the first 500 characters of the description, else 0.
C22_RoleScoreForNonEmptyRole ==
    HeuristicReturned =>
        heuristic_call.locals.role_score =
            IF CallRole = "" THEN 0
            ELSE IF Contains(CallTitle, CallRole) THEN 30
            ELSE IF Contains(SubSeq(CallDescription, 1, Min(500, Len(CallDescription))),
                             CallRole) THEN 15
            ELSE 0

C22_Witness ==
    /\ HeuristicReturned
    /\ Get(heuristic_call.job, "job_title", None) = Str("Chef")
    /\ Get(heuristic_call.job, "description", None) = Str(DescriptionRoleAtEnd)
    /\ Get(heuristic_call.user_profile, "target_role", None) = Str("Backend Engineer")
    /\ heuristic_call.locals.role_score = 15

\* C23: the seniority component is min(20, sum over the six keywords of
\* 10 when the keyword is in both the title and the experience text, 5 when
\* it is in exactly one of them, 0 when in neither).
SeniorityKeywords == {"senior", "lead", "staff", "principal", "junior", "entry"}

C23_SeniorityScoreIsCappedSum ==
    HeuristicReturned =>
        LET both == {k \in SeniorityKeywords :
                        Contains(CallTitle, k) /\ Contains(CallExperience, k)}
            one == {k \in SeniorityKeywords :
                        Contains(CallTitle, k) # Contains(CallExperience, k)}
        IN  heuristic_call.locals.exp_score
               = Min(20, 10 * Cardinality(both) + 5 * Cardinality(one))

C23_Witness ==
    /\ HeuristicReturned
    /\ Get(heuristic_call.job, "job_title", None) = Str("Senior Staff Lead Engineer")
    /\ Get(heuristic_call.user_profile, "experience", None)
          = Str("Senior staff engineer, team lead")
    /\ heuristic_call.locals.exp_score = 20

\* C24: the skill component is min(50, 10 * the number of profile skills
\* that occur, case-insensitively, in the description or in the title), and
\* match_score is the sum of the skill, role and seniority components.
C24_SkillScoreAndTotal ==
    HeuristicReturned =>
        LET occurring == {i \in 1..Len(CallSkills) :
                             \/ Contains(CallDescription, CallSkills[i])
                             \/ Contains(CallTitle, CallSkills[i])}
        IN  /\ heuristic_call.locals.skill_score = Min(50, 10 * Cardinality(occurring))
            /\ heuristic_call.outcome.value.match_score
                  = PyInt(heuristic_call.locals.skill_score
                          + heuristic_call.locals.role_score
                          + heuristic_call.locals.exp_score)

C24_Witness ==
    /\ HeuristicReturned
    /\ Len(heuristic_call.locals.matched_skills) = 7
    /\ heuristic_call.locals.skill_score = 50
    /\ heuristic_call.locals.role_score = 30
    /\ heuristic_call.locals.exp_score = 20
    /\ heuristic_call.outcome.value.match_score = PyInt(100)

\* C25: missing_skills is the first 5, in profile order, of the profile
\* skills found in neither the description nor the title, matched_skills the
\* first 5 of those found in at least one; no skill is in both lists, and
\* before the cut every profile skill is in exactly one of the two.
Occurs(skill) == Contains(CallDescription, skill) \/ Contains(CallTitle, skill)

Elements(q) == {q[i] : i \in 1..Len(q)}

C25_SkillListsPartitionTheProfile ==
    HeuristicReturned =>
        LET found == SelectSeq(CallSkills, Occurs)
            absent == SelectSeq(CallSkills, LAMBDA s : ~Occurs(s))
            result == heuristic_call.outcome.value
            locals == heuristic_call.locals
        IN  /\ result.matched_skills = PyList(SubSeq(found, 1, Min(5, Len(found))))
            /\ result.missing_skills = PyList(SubSeq(absent, 1, Min(5, Len(absent))))
            /\ Elements(result.matched_skills.val) \cap Elements(result.missing_skills.val) = {}
            /\ Len(locals.matched_skills) + Len(locals.missing_skills) = Len(CallSkills)
            /\ \A i \in 1..Len(CallSkills) :
                  (CallSkills[i] \in Elements(locals.matched_skills))
                     # (CallSkills[i] \in Elements(locals.missing_skills))

C25_Witness ==
    /\ HeuristicReturned
    /\ Len(heuristic_call.locals.missing_skills) = 7
    /\ Len(heuristic_call.outcome.value.missing_skills.val) = 5
    /\ heuristic_call.outcome.value.matched_skills = PyList(<<"python">>)

\* C26: the ranking_level of every entry of a returned list is one of
\* "high", "medium", "low", "none", in both modes and whatever the provider
\* answered; "none" is only on the entries of the jobs whose scoring failed.
RankingLevels == {Str("high"), Str("medium"), Str("low"), Str("none")}

C26_RankingLevelIsOneOfFour ==
    pc = "returned" =>
        \A i \in 1..Len(ret) :
           /\ Get(ret[i], "ranking_level", None) \in RankingLevels
           /\ Get(ret[i], "ranking_level", None) = Str("none") =>
                  (~quick_mode /\ ~tasks[i].outcome.ok)

\* C27: a task of an LLM-mode batch issues exactly one provider call, before
\* it has an outcome, so a returned LLM-mode batch of N jobs has issued N
\* calls; a quick-mode batch issues none.
RECURSIVE ProviderCalls(_)
ProviderCalls(ts) ==
    IF ts = <<>> THEN 0 ELSE ts[1].calls + ProviderCalls(Tail(ts))

C27_OneProviderCallPerLlmTask ==
    /\ \A i \in 1..Len(tasks) :
          /\ tasks[i].state = "created" => tasks[i].calls = 0
          /\ tasks[i].state \in {"awaiting", "done"} => tasks[i].calls = 1
          /\ tasks[i].outcome # None => tasks[i].calls = 1
    /\ (pc = "returned" /\ ~quick_mode) => ProviderCalls(tasks) = Len(jobs)
    /\ (pc \in {"returned", "raised"} /\ quick_mode) => ProviderCalls(tasks) = 0

C27_Witness ==
    /\ pc = "returned"
    /\ ~quick_mode
    /\ Len(jobs) = 2
    /\ ProviderCalls(tasks) = 2
    /\ tasks[1].outcome.ok
    /\ ~tasks[2].outcome.ok

\* C28: in quick mode a job whose scoring raises is not turned into a
\* placeholder: the exception of the first such job leaves
\* match_jobs_batch_service and no list is returned, not even the entries of
\* the jobs scored before it.
QuickFailures == {i \in 1..Len(jobs) : ~_score_job_heuristic(jobs[i], user_profile).ok}

C28_QuickModeFailurePropagates ==
    (quick_mode /\ pc \in {"returned", "raised"}) =>
        IF QuickFailures # {}
        THEN /\ pc = "raised"
             /\ ret = <<>>
             /\ \E i \in QuickFailures :
                   /\ \A j \in QuickFailures : i <= j
                   /\ raised = _score_job_heuristic(jobs[i], user_profile).exc
        ELSE /\ pc = "returned"
             /\ raised = None
             /\ \A i \in 1..Len(ret) : "error" \notin DOMAIN ret[i]

C28_Witness ==
    /\ quick_mode
    /\ pc = "raised"
    /\ Len(jobs) = 2
    /\ QuickFailures = {2}
    /\ raised.kind = "AttributeError"
    /\ ret = <<>>

\* C29: when every provider call returns or fails in the end, a batch that
\* waits on its gather returns in the end; and the batch has no timeout of
\* its own: it leaves the gather only when every task is done, so one call
\* that never completes keeps it waiting whatever the other tasks did.
LeavesGatherOnlyWhenAllDone ==
    (pc = "gathering" /\ pc' # "gathering") =>
        /\ \A i \in 1..Len(tasks) : tasks[i].state = "done"
        /\ pc' = "returned"

C29_ReturnsIffEveryCallCompletes ==
    /\ (pc = "gathering") ~> (pc = "returned")
    /\ [][LeavesGatherOnlyWhenAllDone]_vars

C29_Witness ==
    /\ pc = "gathering"
    /\ Len(tasks) = 2
    /\ tasks[1].state = "done"
    /\ tasks[2].state = "awaiting"
    /\ ~ENABLED GatherReturn

\* C30: no two stored jobs share an id, whatever saves, updates and deletes
\* were made: every stored row carries the id it is stored under; a save
\* without an id adds exactly one row, under an id that was not stored, and
\* leaves the other rows as they were; a save under an id that is stored
\* fails and leaves every row as it was.
SaveKeepsIdsUnique ==
    /\ \A id \in DOMAIN tracked_jobs' : tracked_jobs'[id]["id"] = id
    /\ db_call'.op = "save_tracked_job" =>
          LET supplied == Get(db_call'.args[1], "id", None)
          IN  /\ (Falsy(supplied) /\ db_call'.result.ok) =>
                    \E id \in DOMAIN tracked_jobs' \ DOMAIN tracked_jobs :
                       /\ DOMAIN tracked_jobs' = DOMAIN tracked_jobs \cup {id}
                       /\ db_call'.result.value["id"] = id
                       /\ \A other \in DOMAIN tracked_jobs :
                             tracked_jobs'[other] = tracked_jobs[other]
              /\ supplied \in DOMAIN tracked_jobs =>
                    /\ ~db_call'.result.ok
                    /\ tracked_jobs' = tracked_jobs

C30_StoredJobIdsAreUnique == [][SaveKeepsIdsUnique]_vars

\* A save under the id of a stored job has just failed on the primary key,
\* with that job and one more in the table.
C30_Witness ==
    /\ JustCalled("save_tracked_job")
    /\ db_call.args = <<TrackWithId>>
    /\ ~db_call.result.ok
    /\ db_call.result.exc.kind = "IntegrityError"
    /\ Str("job-c") \in DOMAIN tracked_jobs
    /\ Cardinality(DOMAIN tracked_jobs) = 2

====
